---- MODULE Spec2Model ----
(***************************************************************************)
(* The useStaffData hook of src/src/hooks/useStaffData.js: the global      *)
(* settings (category registry, staff roster), the weekly override store,  *)
(* the merge & view engine (getStaffByUnit) and the roster mutations.      *)
(***************************************************************************)
EXTENDS Integers, Sequences, FiniteSets, TLC

VARIABLES
    globalSettings,         \* useState: the loaded settings object, or Null
    currentWeeklySchedule,  \* useState: the schedule of the displayed week, or Null
    settingsLoading,        \* useState
    scheduleLoading,        \* useState
    saveError,              \* useState: an error tag, or NoError
    settingsDoc,            \* the persisted settings document, or NotFound
    weekDocs,               \* the persisted weekly documents by week start date, or NotFound
    pending,                \* continuations waiting after an await (captured closures)
    call,                   \* the last step taken: its name, arguments and return value
    view,                   \* the last value returned by getStaffByUnit
    currentUser,            \* useAuth().currentUser, or Null
    effects,                \* which of the two loading effects React has yet to run
    listeners,              \* the two onSnapshot subscriptions: "off", "due", "idle"
    currentWeek             \* the Date the display layer passes to the hook

vars == <<globalSettings, currentWeeklySchedule, settingsLoading, scheduleLoading,
          saveError, settingsDoc, weekDocs, pending, call, view,
          currentUser, effects, listeners, currentWeek>>

----------------------------------------------------------------------------
(* JavaScript values *)

\* undefined, for a missing string or number property
Undefined == "undefined"
\* null, for the object-valued states
Null == [null |-> TRUE]
\* a document that does not exist: docSnap.exists() is false
NotFound == [exists |-> FALSE]
NoError == "null"

\* Number.POSITIVE_INFINITY as the code uses it: larger than every index and sortOrder
Infinity == 1000

\* !!s on a string or undefined
Truthy(s) == s # Undefined /\ s # ""
\* undefined, for a missing number property (numbers and strings do not compare)
UndefinedNumber == 0 - 1
\* Mutant of Coalesce: a || b
Coalesce_Or(a, b) == IF a # Undefined /\ a # "" THEN a ELSE b

\* a ?? b
Coalesce(a, b) == IF a # Undefined THEN a ELSE b
CoalesceNumber(a, b) == IF a # UndefinedNumber THEN a ELSE b
\* s || ""
OrEmpty(s) == IF Truthy(s) THEN s ELSE ""

Sign(n) == IF n < 0 THEN -1 ELSE IF n > 0 THEN 1 ELSE 0

Range(s) == {s[i] : i \in DOMAIN s}

\* A Date: its local calendar day as a day number (day 0 is a Monday), and the
\* days by which its UTC calendar day differs: -1 in the small hours east of
\* Greenwich, where the UTC clock still shows the evening before
DateOf(day, utcShift) == [day |-> day, utcShift |-> utcShift]
\* date.toISOString().split("T")[0]: the UTC calendar day, as a day number
ISODate(date) == date.day + date.utcShift
\* copy = new Date(date); copy.setDate(copy.getDate() + days): the local day
\* moves, the time of day stays
AddDays(date, days) == [date EXCEPT !.day = @ + days]

\* The weeks of the calendar that are visited: 0..MaxWeek, from day 0 on
MaxWeek == 2
\* The offsets of the UTC day that the clock of a session can show
UTCShifts == {0 - 1, 0}
\* The ids of the weekly documents: 'YYYY-MM-DD' strings, as day numbers
WeekKeys == {7 * w + shift : w \in 0..MaxWeek, shift \in UTCShifts}

\* A store without weekly documents
NoWeekDocs == [week \in WeekKeys |-> NotFound]

\* Array.prototype.map
MapSeq(F(_), s) == [i \in 1..Len(s) |-> F(s[i])]

\* String.prototype.localeCompare on the strings of the model: their collation order
Collation == <<"", "1", "2", "A", "B", "X", "Y">>
CollationRank(s) == CHOOSE i \in DOMAIN Collation : Collation[i] = s
LocaleCompare(a, b) == Sign(CollationRank(a) - CollationRank(b))

\* The property names that are array indices ("1", "2", ...), in ascending
\* numeric order: an object enumerates these first, whatever the insertion order
ArrayIndexKeys == <<"1", "2">>
IsArrayIndex(k) == k \in Range(ArrayIndexKeys)

\* The order in which Object.keys / Object.entries enumerate an object whose
\* string keys were inserted in the order ins (no key twice): array indices
\* ascending, then the other keys in insertion order
OwnKeys(ins) ==
    SelectSeq(ArrayIndexKeys, LAMBDA k : k \in Range(ins))
        \o SelectSeq(ins, LAMBDA k : ~IsArrayIndex(k))

\* The permutations of 1..n
Perms(n) == {p \in [1..n -> 1..n] : \A i, j \in 1..n : i # j => p[i] # p[j]}

\* The comparator's results on the elements of s, by position
ComparisonTable(s, Cmp(_, _)) ==
    [i \in DOMAIN s |-> [j \in DOMAIN s |-> Sign(Cmp(s[i], s[j]))]]

\* Whether a comparator with the results c is a consistent comparator (ECMAScript:
\* antisymmetric in sign and transitive), over the comparisons a sort makes:
\* those of elements at two different positions
ConsistentComparator(c) ==
    \A i, j \in DOMAIN c :
        /\ i # j => c[i][j] = -c[j][i]
        /\ \A k \in DOMAIN c : (c[i][j] <= 0 /\ c[j][k] <= 0) => c[i][k] <= 0

\* Array.prototype.sort(Cmp): the stable sort when the comparator is consistent
\* on the elements; otherwise the order is implementation-defined, any permutation
SortOutcomes(s, Cmp(_, _)) ==
    LET n == Len(s)
        c == ComparisonTable(s, Cmp)
        Apply(p) == [i \in 1..n |-> s[p[i]]]
    IN  IF ConsistentComparator(c)
        THEN {Apply(p) : p \in {q \in Perms(n) :
                 \A i, j \in 1..n : i < j =>
                    \/ c[q[i]][q[j]] < 0
                    \/ c[q[i]][q[j]] = 0 /\ q[i] < q[j]}}
        ELSE {Apply(p) : p \in Perms(n)}

----------------------------------------------------------------------------
(* The merge & view engine: getStaffByUnit *)

\* The suffix of the display string of an orphaned value
DeletedMarker == " (törölt)"

\* new Set(items).has(x)
SetHas(items, x) == x \in Range(items)

\* createOrderMap(items)[x] ?? Infinity: the (last) 0-based index of x, else Infinity
OrderIndex(items, x) ==
    IF x \in Range(items)
    THEN (CHOOSE i \in DOMAIN items :
             items[i] = x /\ \A j \in DOMAIN items : items[j] = x => j <= i) - 1
    ELSE Infinity

\* (currentWeeklySchedule?.staff || [])
WeeklyStaff(ws) == IF ws = Null THEN <<>> ELSE ws.staff

HasWeeklyData(ws, id) == \E i \in DOMAIN WeeklyStaff(ws) : WeeklyStaff(ws)[i].staffId = id

\* weeklyStaffDataMap[id]: the reduce keeps the last record of an id
WeeklyData(ws, id) ==
    LET st == WeeklyStaff(ws)
    IN  st[CHOOSE i \in DOMAIN st :
               st[i].staffId = id /\ \A j \in DOMAIN st : st[j].staffId = id => j <= i]

\* weeklyData?.field
WeeklyField(ws, id, field) ==
    IF HasWeeklyData(ws, id) THEN WeeklyData(ws, id)[field] ELSE Undefined

\* Mutants of IsOrphaned: the validity test inverted; the truthiness test dropped
IsOrphaned_Inverted(weeklyValue, validItems) ==
    Truthy(weeklyValue) /\ SetHas(validItems, weeklyValue)
IsOrphaned_NoOverrideTest(weeklyValue, validItems) == ~SetHas(validItems, weeklyValue)

IsOrphaned(weeklyValue, validItems) == Truthy(weeklyValue) /\ ~SetHas(validItems, weeklyValue)

Display(effective, isOrphaned) ==
    IF isOrphaned THEN effective \o DeletedMarker ELSE effective

\* One element of combinedStaffList
CombinedStaff(gs, ws, globalStaff) ==
    LET weeklyUnit == WeeklyField(ws, globalStaff.id, "unit")
        globalUnit == Coalesce(globalStaff.defaultUnit, "")
        effectiveUnit == Coalesce(weeklyUnit, globalUnit)
        isOrphanedUnit == IsOrphaned(weeklyUnit, gs.units)
        weeklyGroup == WeeklyField(ws, globalStaff.id, "group")
        globalGroup == Coalesce(globalStaff.defaultGroup, "")
        effectiveGroup == Coalesce(weeklyGroup, globalGroup)
        isOrphanedGroup == IsOrphaned(weeklyGroup, gs.groups)
        weeklyJobTitle == WeeklyField(ws, globalStaff.id, "jobTitle")
        globalJobTitle == Coalesce(globalStaff.defaultJobTitle, "")
        effectiveJobTitle == Coalesce(weeklyJobTitle, globalJobTitle)
        isOrphanedJobTitle == IsOrphaned(weeklyJobTitle, gs.jobTitles)
    IN  [staffId |-> globalStaff.id,
         name |-> Coalesce(WeeklyField(ws, globalStaff.id, "name"), globalStaff.name),
         unit |-> effectiveUnit,
         displayUnit |-> Display(effectiveUnit, isOrphanedUnit),
         isOrphanedUnit |-> isOrphanedUnit,
         group |-> effectiveGroup,
         displayGroup |-> Display(effectiveGroup, isOrphanedGroup),
         isOrphanedGroup |-> isOrphanedGroup,
         jobTitle |-> effectiveJobTitle,
         displayJobTitle |-> Display(effectiveJobTitle, isOrphanedJobTitle),
         isOrphanedJobTitle |-> isOrphanedJobTitle,
         shifts |-> IF HasWeeklyData(ws, globalStaff.id)
                    THEN WeeklyData(ws, globalStaff.id).shifts ELSE <<>>,
         sortOrder |-> CoalesceNumber(globalStaff.sortOrder, Infinity),
         employeeNumber |-> Coalesce(globalStaff.employeeNumber, "")]

\* Mutant of ActiveGlobalStaff: the isActive filter left out
ActiveGlobalStaff_Unfiltered(gs) == gs.staffList

ActiveGlobalStaff(gs) == SelectSeq(gs.staffList, LAMBDA s : s.isActive)

CombinedStaffList(gs, ws) ==
    MapSeq(LAMBDA s : CombinedStaff(gs, ws, s), ActiveGlobalStaff(gs))

\* The keys of groupedByUnit in insertion order: staff.unit || "", first occurrences
RECURSIVE UnitKeysInserted(_)
UnitKeysInserted(list) ==
    IF list = <<>> THEN <<>>
    ELSE LET rest == UnitKeysInserted(SubSeq(list, 1, Len(list) - 1))
             k == OrEmpty(list[Len(list)].unit)
         IN  IF k \in Range(rest) THEN rest ELSE Append(rest, k)

\* groupedByUnit[unitKey]: the entries of the unit in list order
GroupedByUnit(list, unitKey) == SelectSeq(list, LAMBDA s : OrEmpty(s.unit) = unitKey)

\* The comparator of sortedUnitKeys
UnitKeyCompare(gs, a, b) ==
    LET indexA == IF a = "" THEN Infinity
                  ELSE IF SetHas(gs.units, a) THEN OrderIndex(gs.units, a) ELSE Infinity
        indexB == IF b = "" THEN Infinity
                  ELSE IF SetHas(gs.units, b) THEN OrderIndex(gs.units, b) ELSE Infinity
    IN  IF a = "" THEN 1
        ELSE IF b = "" THEN -1
        ELSE IF indexA = Infinity /\ indexB # Infinity THEN 1
        ELSE IF indexA # Infinity /\ indexB = Infinity THEN -1
        ELSE IF indexA = Infinity /\ indexB = Infinity THEN LocaleCompare(a, b)
        ELSE indexA - indexB

\* The comparator of the staff of one unit
StaffCompare(gs, a, b) ==
    LET groupIndexA == IF ~a.isOrphanedGroup
                       THEN OrderIndex(gs.groups, OrEmpty(a.group)) ELSE Infinity
        groupIndexB == IF ~b.isOrphanedGroup
                       THEN OrderIndex(gs.groups, OrEmpty(b.group)) ELSE Infinity
        groupCompare == LocaleCompare(OrEmpty(a.group), OrEmpty(b.group))
        jobIndexA == IF ~a.isOrphanedJobTitle
                     THEN OrderIndex(gs.jobTitles, OrEmpty(a.jobTitle)) ELSE Infinity
        jobIndexB == IF ~b.isOrphanedJobTitle
                     THEN OrderIndex(gs.jobTitles, OrEmpty(b.jobTitle)) ELSE Infinity
        jobCompare == LocaleCompare(OrEmpty(a.jobTitle), OrEmpty(b.jobTitle))
        tertiary == IF a.sortOrder # b.sortOrder THEN a.sortOrder - b.sortOrder
                    ELSE LocaleCompare(OrEmpty(a.name), OrEmpty(b.name))
        secondary ==
            IF jobIndexA # jobIndexB
            THEN IF jobIndexA = Infinity /\ jobIndexB # Infinity THEN 1
                 ELSE IF jobIndexA # Infinity /\ jobIndexB = Infinity THEN -1
                 ELSE jobIndexA - jobIndexB
            ELSE IF a.isOrphanedJobTitle /\ b.isOrphanedJobTitle /\ jobCompare # 0
                 THEN jobCompare
                 ELSE tertiary
    IN  IF groupIndexA # groupIndexB
        THEN IF groupIndexA = Infinity /\ groupIndexB # Infinity THEN 1
             ELSE IF groupIndexA # Infinity /\ groupIndexB = Infinity THEN -1
             ELSE groupIndexA - groupIndexB
        ELSE IF a.isOrphanedGroup /\ b.isOrphanedGroup /\ groupCompare # 0
             THEN groupCompare
             ELSE secondary

\* The views getStaffByUnit can return: the sequence of [unit, staff] in the
\* order Object.entries enumerates finalSortedResult
GetStaffByUnitOutcomes(gs, ws, sLoading, wLoading) ==
    IF sLoading \/ wLoading \/ gs = Null THEN {<<>>}
    ELSE IF ActiveGlobalStaff(gs) = <<>> THEN {<<>>}
    ELSE
      LET list == CombinedStaffList(gs, ws)
          keys == OwnKeys(UnitKeysInserted(list))
          UnitCmp(a, b) == UnitKeyCompare(gs, a, b)
          StaffCmp(a, b) == StaffCompare(gs, a, b)
          Sorted(unitKey) == SortOutcomes(GroupedByUnit(list, unitKey), StaffCmp)
      IN  UNION { { [i \in 1..Len(sortedUnitKeys) |->
                       [unit |-> OwnKeys(sortedUnitKeys)[i],
                        staff |-> choice[OwnKeys(sortedUnitKeys)[i]]]]
                    : choice \in {c \in [Range(keys) -> UNION {Sorted(k) : k \in Range(keys)}] :
                                     \A k \in Range(keys) : c[k] \in Sorted(k)} }
                : sortedUnitKeys \in SortOutcomes(keys, UnitCmp) }

\* getStaffByUnit(), called by the display layer on the current state
GetStaffByUnit ==
    /\ view' \in GetStaffByUnitOutcomes(globalSettings, currentWeeklySchedule,
                                        settingsLoading, scheduleLoading)
    /\ call' = [op |-> "getStaffByUnit", arg |-> Undefined, result |-> Undefined]
    /\ UNCHANGED <<globalSettings, currentWeeklySchedule, settingsLoading,
                   scheduleLoading, saveError, settingsDoc, weekDocs, pending,
                   currentUser, currentWeek, effects, listeners>>

----------------------------------------------------------------------------
(* Inputs of the view engine: one roster member and its weekly record in every
   combination of default, override and registry, beside a second member *)

NoCall == [op |-> "none", arg |-> Undefined, result |-> Undefined]

\* A mounted hook at rest: a user, both effects run, both listeners served
User == [uid |-> "u1"]
AtRest ==
    /\ currentUser = User
    /\ effects = [settings |-> FALSE, week |-> FALSE]
    /\ currentWeek = DateOf(0, 0)
    /\ listeners = [settings |-> "idle", week |-> "idle", weekOf |-> currentWeek]

Member(id, name, unit, group, jobTitle, active, order) ==
    [id |-> id, name |-> name, defaultUnit |-> unit, defaultGroup |-> group,
     defaultJobTitle |-> jobTitle, isActive |-> active, sortOrder |-> order,
     employeeNumber |-> Undefined]

WeeklyRecord(id, name, unit, group, jobTitle, shifts) ==
    [staffId |-> id, name |-> name, unit |-> unit, group |-> group,
     jobTitle |-> jobTitle, shifts |-> shifts]

Settings(units, groups, jobTitles, staffList) ==
    [units |-> units, groups |-> groups, jobTitles |-> jobTitles,
     shiftTypes |-> <<"DE">>, timeSlots |-> <<>>, staffList |-> staffList]

\* The shifts maps of the inputs: none, or Monday "DE"
ShiftMaps == {<<>>, [d \in {0} |-> "DE"]}
ViewRegistries == {<<"B">>, <<"B", "A">>}
ViewDefaults == {Undefined, "A"}
ViewOverrides == {Undefined, "", "A"}
ViewNameOverrides == {Undefined, "", "X"}

ViewWeeks ==
    LET other == WeeklyRecord("s2", Undefined, "X", Undefined, "", <<>>)
    IN  {[weekStartDate |-> 0, staff |-> <<other>>]}
        \cup {[weekStartDate |-> 0, staff |-> <<WeeklyRecord("s1", n, u, g, j, sh), other>>] :
                n \in ViewNameOverrides, u \in ViewOverrides, g \in ViewOverrides,
                j \in ViewOverrides, sh \in ShiftMaps}

ViewRosters ==
    {<<Member("s1", "A", u, g, j, a1, 0), Member("s2", "B", "B", "B", "B", a2, 1)>> :
        u \in ViewDefaults, g \in ViewDefaults, j \in ViewDefaults,
        a1 \in BOOLEAN, a2 \in BOOLEAN}

InitView ==
    /\ \E units \in ViewRegistries, groups \in ViewRegistries, jobTitles \in ViewRegistries,
          staffList \in ViewRosters :
          globalSettings = Settings(units, groups, jobTitles, staffList)
    /\ currentWeeklySchedule \in ViewWeeks
    /\ settingsLoading = FALSE
    /\ scheduleLoading = FALSE
    /\ saveError = NoError
    /\ settingsDoc = NotFound
    /\ weekDocs = NoWeekDocs
    /\ pending = <<>>
    /\ call = NoCall
    /\ view = <<>>
    /\ AtRest

NextView == GetStaffByUnit

SpecView == InitView /\ [][NextView]_vars

----------------------------------------------------------------------------
(* The view claims, over the inputs held in the state and the view returned *)

Viewed == call.op = "getStaffByUnit"

Roster == IF globalSettings = Null THEN <<>> ELSE globalSettings.staffList
RosterMembers == Range(Roster)
WeekRecords == IF currentWeeklySchedule = Null THEN {} ELSE Range(currentWeeklySchedule.staff)

\* Every entry of every bucket of the view
ViewEntries == UNION {Range(view[i].staff) : i \in DOMAIN view}
EntriesOf(id) == {e \in ViewEntries : e.staffId = id}

\* The three overridable fields: the record key, the roster key, the registry,
\* and the entry's keys
Fields ==
    {[key |-> "unit", default |-> "defaultUnit", registry |-> "units",
      display |-> "displayUnit", orphaned |-> "isOrphanedUnit"],
     [key |-> "group", default |-> "defaultGroup", registry |-> "groups",
      display |-> "displayGroup", orphaned |-> "isOrphanedGroup"],
     [key |-> "jobTitle", default |-> "defaultJobTitle", registry |-> "jobTitles",
      display |-> "displayJobTitle", orphaned |-> "isOrphanedJobTitle"]}

\* The weekly records of a member that set a field
OverridesOf(id, f) == {r \in WeekRecords : r.staffId = id /\ r[f.key] # Undefined}
InRegistry(f, value) == value \in Range(globalSettings[f.registry])

\* C1: no inactive roster member appears in any bucket of the view, also when
\* the week holds a record for the member; with no active member the view is empty.
C1_InactiveNeverShown ==
    Viewed =>
        /\ \A m \in RosterMembers : ~m.isActive => EntriesOf(m.id) = {}
        /\ (\A m \in RosterMembers : ~m.isActive) => view = <<>>

C1_Witness ==
    /\ Viewed
    /\ view # <<>>
    /\ \E m \in RosterMembers :
          ~m.isActive /\ \E r \in WeekRecords : r.staffId = m.id

\* C2 as claimed: every override value absent from the registry, the empty
\* string included, is flagged orphaned and displayed with the deleted marker.
C2_OrphanedAnyOverride ==
    Viewed =>
        \A m \in RosterMembers : \A f \in Fields : \A r \in OverridesOf(m.id, f) :
            (m.isActive /\ ~InRegistry(f, r[f.key])) =>
                \A e \in EntriesOf(m.id) :
                    e[f.orphaned] /\ e[f.display] = r[f.key] \o DeletedMarker

\* C2 amended: every non-empty override value absent from the registry is
\* flagged orphaned and displayed as the value followed by the deleted marker.
C2_OrphanedNonEmptyOverride ==
    Viewed =>
        \A m \in RosterMembers : \A f \in Fields : \A r \in OverridesOf(m.id, f) :
            (m.isActive /\ r[f.key] # "" /\ ~InRegistry(f, r[f.key])) =>
                /\ EntriesOf(m.id) # {}
                /\ \A e \in EntriesOf(m.id) :
                      e[f.orphaned] /\ e[f.display] = r[f.key] \o DeletedMarker

C2_Witness ==
    /\ Viewed
    /\ \E m \in RosterMembers : \E r \in OverridesOf(m.id, CHOOSE f \in Fields : f.key = "unit") :
          /\ m.isActive /\ r.unit = "A" /\ "A" \notin Range(globalSettings.units)
          /\ \E e \in EntriesOf(m.id) : e.displayUnit = "A (törölt)"

\* C3: a field is not flagged orphaned when its value is in the registry, nor
\* when the member has no weekly override for it (also when the roster default
\* names a deleted category); the display string is then the raw effective value.
C3_NotOrphaned ==
    Viewed =>
        \A e \in ViewEntries : \A f \in Fields :
            (InRegistry(f, e[f.key]) \/ OverridesOf(e.staffId, f) = {}) =>
                ~e[f.orphaned] /\ e[f.display] = e[f.key]

C3_Witness ==
    /\ Viewed
    /\ \E m \in RosterMembers : \E e \in EntriesOf(m.id) :
          /\ OverridesOf(m.id, CHOOSE f \in Fields : f.key = "group") = {}
          /\ m.defaultGroup = "A" /\ "A" \notin Range(globalSettings.groups)
          /\ e.group = "A" /\ ~e.isOrphanedGroup

\* C4: the effective unit, group and job title are the override's value when a
\* record sets the field (the empty string included), the roster default
\* otherwise (empty when the roster has none); the name is the record's name
\* when supplied, else the roster name; the shifts are the record's, else empty.
C4_EffectiveValues ==
    Viewed =>
        \A m \in RosterMembers : m.isActive =>
            /\ Cardinality(EntriesOf(m.id)) = 1
            /\ \A e \in EntriesOf(m.id) :
                /\ \A f \in Fields :
                      /\ \A r \in OverridesOf(m.id, f) : e[f.key] = r[f.key]
                      /\ OverridesOf(m.id, f) = {} =>
                            e[f.key] = (IF m[f.default] = Undefined THEN "" ELSE m[f.default])
                /\ \A r \in WeekRecords : r.staffId = m.id =>
                      /\ e.name = (IF r.name = Undefined THEN m.name ELSE r.name)
                      /\ e.shifts = r.shifts
                /\ (\A r \in WeekRecords : r.staffId # m.id) =>
                      e.name = m.name /\ e.shifts = <<>>

C4_Witness ==
    /\ Viewed
    /\ \E m \in RosterMembers : \E r \in WeekRecords : \E e \in EntriesOf(m.id) :
          /\ r.staffId = m.id /\ r.unit = "" /\ m.defaultUnit = "A" /\ e.unit = ""
          /\ r.name = "X" /\ e.name = "X" /\ e.shifts # <<>>

----------------------------------------------------------------------------
(* Inputs of the ordering: three active members, either spread over units
   (the bucket order) or in one unit with every mix of group and job title
   sources (the order within a bucket) *)

\* The sequences without repetition, of length at most two, over a set of names
Registries(names) ==
    {<<>>} \cup {<<a>> : a \in names}
           \cup {<<p[1], p[2]>> : p \in {q \in names \X names : q[1] # q[2]}}

OrderUnitNames == {"", "1", "A", "B", "X", "Y"}
OrderUnitRegistries == Registries({"1", "A", "B"})

\* One member's group or job title: from the roster default, or from the
\* weekly record over a default of "A"
OrderGroupSources ==
    {[default |-> d, weekly |-> Undefined] : d \in {"A", "B", "X", "Y"}}
        \cup {[default |-> "A", weekly |-> w] : w \in {"X", "Y"}}
OrderJobSources ==
    {[default |-> d, weekly |-> Undefined] : d \in {"A", "X"}}
        \cup {[default |-> "A", weekly |-> w] : w \in {"X"}}
OrderGroupRegistries == {<<"B", "A">>}
\* The sortOrder and name of the three members: distinct, or all tied on sortOrder
OrderTieBreaks ==
    {<<[sortOrder |-> 0, name |-> "A"], [sortOrder |-> 1, name |-> "B"],
       [sortOrder |-> 2, name |-> "X"]>>,
     <<[sortOrder |-> 0, name |-> "X"], [sortOrder |-> 0, name |-> "B"],
       [sortOrder |-> 0, name |-> "A"]>>}
OrderIds == <<"s1", "s2", "s3">>

InitOrderUnits ==
    \E units \in OrderUnitRegistries, u \in [1..3 -> OrderUnitNames] :
        /\ globalSettings = Settings(units, <<"A">>, <<"A">>,
              [i \in 1..3 |-> Member(OrderIds[i], "A", u[i], "A", "A", TRUE, i - 1)])
        /\ currentWeeklySchedule = [weekStartDate |-> 0, staff |-> <<>>]

InitOrderStaff ==
    \E groups \in OrderGroupRegistries, tie \in OrderTieBreaks,
       g \in [1..3 -> OrderGroupSources], j \in [1..3 -> OrderJobSources] :
        /\ globalSettings = Settings(<<"A">>, groups, <<"A">>,
              [i \in 1..3 |-> Member(OrderIds[i], tie[i].name, "A", g[i].default,
                                     j[i].default, TRUE, tie[i].sortOrder)])
        /\ currentWeeklySchedule =
              [weekStartDate |-> 0,
               staff |-> SelectSeq(
                   [i \in 1..3 |-> WeeklyRecord(OrderIds[i], Undefined, Undefined,
                                                g[i].weekly, j[i].weekly, <<>>)],
                   LAMBDA r : r.group # Undefined \/ r.jobTitle # Undefined)]

InitOrder ==
    /\ InitOrderUnits \/ InitOrderStaff
    /\ settingsLoading = FALSE
    /\ scheduleLoading = FALSE
    /\ saveError = NoError
    /\ settingsDoc = NotFound
    /\ weekDocs = NoWeekDocs
    /\ pending = <<>>
    /\ call = NoCall
    /\ view = <<>>
    /\ AtRest

NextOrder == GetStaffByUnit

SpecOrder == InitOrder /\ [][NextOrder]_vars

\* The sort class of a name against a registry: listed names by index, then the
\* other names in collation order
Listed(items, x) == x \in Range(items)
Precedes(items, a, b) ==
    \/ Listed(items, a) /\ Listed(items, b) /\ OrderIndex(items, a) < OrderIndex(items, b)
    \/ Listed(items, a) /\ ~Listed(items, b)
    \/ ~Listed(items, a) /\ ~Listed(items, b) /\ LocaleCompare(a, b) < 0

\* C5: the buckets are enumerated with the units of the registry first, by
\* ascending index, then the other named units alphabetically, then the
\* empty-string bucket.
C5_UnitBucketOrder ==
    Viewed =>
        \A i, j \in DOMAIN view : i < j =>
            /\ view[i].unit # ""
            /\ view[j].unit # "" => Precedes(globalSettings.units, view[i].unit, view[j].unit)

\* C6: within a bucket the entries are ordered by group (listed groups by index,
\* unlisted groups after them and alphabetically), then by job title with the
\* same rule, then by sortOrder, then by name, whatever the source of an
\* unlisted group or job title.
EntryPrecedes(a, b) ==
    LET gs == globalSettings
    IN  \/ Precedes(gs.groups, a.group, b.group)
        \/ /\ a.group = b.group
           /\ \/ Precedes(gs.jobTitles, a.jobTitle, b.jobTitle)
              \/ /\ a.jobTitle = b.jobTitle
                 /\ \/ a.sortOrder < b.sortOrder
                    \/ a.sortOrder = b.sortOrder /\ LocaleCompare(a.name, b.name) <= 0

C6_WithinUnitOrder ==
    Viewed =>
        \A k \in DOMAIN view : \A i, j \in DOMAIN view[k].staff : i < j =>
            EntryPrecedes(view[k].staff[i], view[k].staff[j])

----------------------------------------------------------------------------
(* The hook: the persistence collaborator, the two save operations, the two
   loading effects with their listeners, and the roster mutations *)

\* The roster is capped at MaxStaff members, and one continuation waits at a time
MaxStaff == 2
MaxPending == 1

\* { ...a, ...b }
Merge(a, b) ==
    IF DOMAIN b = {} THEN a
    ELSE IF DOMAIN a = {} THEN b
    ELSE [k \in DOMAIN a \cup DOMAIN b |-> IF k \in DOMAIN b THEN b[k] ELSE a[k]]

blankGlobalSettings ==
    [units |-> <<>>, groups |-> <<>>, jobTitles |-> <<>>,
     shiftTypes |-> <<>>, timeSlots |-> <<>>, staffList |-> <<>>]

\* The week displayed, as its 'YYYY-MM-DD' start date
currentWeekStartDate == ISODate(currentWeek)

defaultWeeklySchedule(startDate) ==
    [weekStartDate |-> ISODate(startDate), staff |-> <<>>]

\* (a, b) => (a.sortOrder ?? Infinity) - (b.sortOrder ?? Infinity)
SortOrderCompare(a, b) ==
    CoalesceNumber(a.sortOrder, Infinity) - CoalesceNumber(b.sortOrder, Infinity)

\* list.sort(SortOrderCompare): the comparator is consistent, the sort is stable
SortBySortOrder(list) == CHOOSE sorted \in SortOutcomes(list, SortOrderCompare) : TRUE

\* Mutant of Reindex: the sortOrder of the members kept as it was
Reindex_Kept(list) == list

\* list.map((staff, index) => ({ ...staff, sortOrder: index }))
Reindex(list) == [i \in DOMAIN list |-> Merge(list[i], [sortOrder |-> i - 1])]

\* setDoc(docRef, data, { merge: true }): the fields of data replace those of the
\* document, the timeSlots map is merged key by key
SetDocMerge(doc, data) ==
    IF doc = NotFound THEN data
    ELSE Merge(doc, [data EXCEPT !.timeSlots = Merge(doc.timeSlots, data.timeSlots)])

\* Mutant of SafetyCheck: no check
SafetyCheck_Off(gs, newSettings) == NoError

\* The safety check of saveGlobalSettings: the error it sets, or NoError
SafetyCheck(gs, newSettings) ==
    LET allCategoriesEmpty ==
            newSettings.units = <<>> /\ newSettings.groups = <<>>
                /\ newSettings.jobTitles = <<>>
        allDataEmpty ==
            allCategoriesEmpty /\ newSettings.staffList = <<>>
                /\ newSettings.shiftTypes = <<>> /\ DOMAIN newSettings.timeSlots = {}
        hadData ==
            gs.units # <<>> \/ gs.groups # <<>> \/ gs.jobTitles # <<>>
                \/ gs.staffList # <<>> \/ gs.shiftTypes # <<>>
    IN  IF gs # Null /\ ~allDataEmpty
        THEN IF hadData /\ allCategoriesEmpty
                   /\ (newSettings.staffList # <<>> \/ newSettings.shiftTypes # <<>>)
             THEN "Biztonsági figyelmeztetés: Minden kategória"
             ELSE IF hadData /\ allDataEmpty
                  THEN "Biztonsági figyelmeztetés: Az összes beállítás"
                  ELSE NoError
        ELSE NoError

\* saveGlobalSettings(newSettings, bypassSafetyChecks) in the closure of a render
\* with the settings gs, on the stored document doc; stored tells whether setDoc
\* resolves. The result: the return value, the saveError set, the document left,
\* and whether setDoc was called
SaveGlobalSettings(user, gs, doc, newSettings, bypassSafetyChecks, stored) ==
    IF user = Null \/ newSettings = Null
    THEN [success |-> FALSE, saveError |-> "Mentési hiba", settingsDoc |-> doc,
          setDoc |-> FALSE]
    ELSE IF ~bypassSafetyChecks /\ SafetyCheck(gs, newSettings) # NoError
    THEN [success |-> FALSE, saveError |-> SafetyCheck(gs, newSettings),
          settingsDoc |-> doc, setDoc |-> FALSE]
    ELSE IF stored
    THEN [success |-> TRUE, saveError |-> NoError,
          settingsDoc |-> SetDocMerge(doc,
              [newSettings EXCEPT !.staffList = SortBySortOrder(newSettings.staffList)]),
          setDoc |-> TRUE]
    ELSE [success |-> FALSE, saveError |-> "Globális beállítások mentése sikertelen",
          settingsDoc |-> doc, setDoc |-> TRUE]

\* The record saveWeeklySchedule writes for a record of the schedule
ScheduleToSave(newScheduleData) ==
    [weekStartDate |-> newScheduleData.weekStartDate,
     staff |-> MapSeq(LAMBDA s : [staffId |-> s.staffId, name |-> OrEmpty(s.name),
                                  unit |-> OrEmpty(s.unit), group |-> OrEmpty(s.group),
                                  jobTitle |-> OrEmpty(s.jobTitle), shifts |-> s.shifts],
                      newScheduleData.staff)]

\* Mutant of SaveWeeklySchedule: the catch sets no error
SaveWeeklySchedule_Silent(user, error, doc, newScheduleData, stored) ==
    IF user = Null \/ newScheduleData = Null
    THEN [success |-> FALSE, saveError |-> error, weekDoc |-> doc]
    ELSE [success |-> stored, saveError |-> NoError,
          weekDoc |-> IF stored THEN ScheduleToSave(newScheduleData) ELSE doc]

\* saveWeeklySchedule(weekStartDateStr, newScheduleData) on the stored document doc
SaveWeeklySchedule(user, error, doc, newScheduleData, stored) ==
    IF user = Null \/ newScheduleData = Null
    THEN [success |-> FALSE, saveError |-> error, weekDoc |-> doc]
    ELSE IF stored
    THEN [success |-> TRUE, saveError |-> NoError, weekDoc |-> ScheduleToSave(newScheduleData)]
    ELSE [success |-> FALSE, saveError |-> "Heti beosztás mentése sikertelen",
          weekDoc |-> doc]

\* The store serves a subscribed listener with the document it now holds
Notified(kind, before, after) ==
    IF after # before /\ listeners[kind] # "off"
    THEN [listeners EXCEPT ![kind] = "due"] ELSE listeners

\* The same for the weekly listener, which is subscribed to the document of
\* the week that was displayed when the weekly effect ran
NotifiedWeek(before, after) ==
    Notified("week", before[ISODate(listeners.weekOf)], after[ISODate(listeners.weekOf)])

\* The snapshots the store owes are delivered before the next call of a handler
NoSnapshotDue == listeners.settings # "due" /\ listeners.week # "due"

\* The settings effect: reset, then subscribe. Resetting globalSettings changes
\* saveGlobalSettings, a dependency of the effect, which is then to run again
SettingsEffect ==
    /\ effects.settings
    /\ globalSettings' = Null
    /\ currentWeeklySchedule' = Null
    /\ saveError' = NoError
    /\ settingsLoading' = (currentUser # Null)
    /\ listeners' = [listeners EXCEPT
                        !.settings = IF currentUser = Null THEN "off" ELSE "due"]
    /\ effects' = [settings |-> globalSettings # Null,
                   week |-> effects.week \/ settingsLoading' # settingsLoading]
    /\ call' = [op |-> "settingsEffect", arg |-> Undefined, result |-> Undefined]
    /\ UNCHANGED <<scheduleLoading, settingsDoc, weekDocs, pending, view, currentUser, currentWeek>>

\* data.staffList of the snapshot handler: defaults, then sorted
SnapshotStaffList(staffList) ==
    SortBySortOrder(MapSeq(LAMBDA staff :
        Merge([isActive |-> TRUE, sortOrder |-> Infinity], staff), staffList))

\* The snapshot handler of the settings listener; on a missing document it
\* saves the blank settings, with the saveGlobalSettings of the effect's render
SettingsSnapshot(stored) ==
    /\ listeners.settings = "due"
    /\ IF settingsDoc # NotFound
       THEN /\ globalSettings' =
                  [settingsDoc EXCEPT !.staffList = SnapshotStaffList(settingsDoc.staffList)]
            /\ listeners' = [listeners EXCEPT !.settings = "idle"]
            /\ UNCHANGED <<settingsDoc, saveError>>
       ELSE LET saved == SaveGlobalSettings(currentUser, Null, settingsDoc,
                                            blankGlobalSettings, TRUE, stored)
            IN  /\ globalSettings' = blankGlobalSettings
                /\ settingsDoc' = saved.settingsDoc
                /\ saveError' = saved.saveError
                /\ listeners' = [listeners EXCEPT
                       !.settings = IF saved.success THEN "due" ELSE "idle"]
    /\ settingsLoading' = FALSE
    /\ effects' = [settings |-> TRUE,
                   week |-> effects.week \/ settingsLoading]
    /\ call' = [op |-> "settingsSnapshot", arg |-> Undefined, result |-> Undefined]
    /\ UNCHANGED <<currentWeeklySchedule, scheduleLoading, weekDocs, pending, view,
                   currentUser, currentWeek>>

\* The weekly effect: skip while there is no user or the settings load, else
\* reset and subscribe to the document of the displayed week
WeekEffect ==
    /\ effects.week
    /\ currentWeeklySchedule' = Null
    /\ IF currentUser = Null \/ settingsLoading
       THEN /\ scheduleLoading' = (currentUser # Null /\ settingsLoading)
            /\ listeners' = [listeners EXCEPT !.week = "off"]
            /\ UNCHANGED saveError
       ELSE /\ scheduleLoading' = TRUE
            /\ saveError' = NoError
            /\ listeners' = [listeners EXCEPT !.week = "due", !.weekOf = currentWeek]
    /\ effects' = [effects EXCEPT !.week = FALSE]
    /\ call' = [op |-> "weekEffect", arg |-> Undefined, result |-> Undefined]
    /\ UNCHANGED <<globalSettings, settingsLoading, settingsDoc, weekDocs, pending,
                   view, currentUser, currentWeek>>

\* The snapshot handler of the weekly listener
WeekSnapshot ==
    /\ listeners.week = "due"
    /\ currentWeeklySchedule' =
          IF weekDocs[ISODate(listeners.weekOf)] # NotFound
          THEN weekDocs[ISODate(listeners.weekOf)]
          ELSE defaultWeeklySchedule(listeners.weekOf)
    /\ scheduleLoading' = FALSE
    /\ listeners' = [listeners EXCEPT !.week = "idle"]
    /\ call' = [op |-> "weekSnapshot", arg |-> Undefined, result |-> Undefined]
    /\ UNCHANGED <<globalSettings, settingsLoading, saveError, settingsDoc, weekDocs,
                   pending, view, currentUser, currentWeek, effects>>

\* What a call of saveGlobalSettings by a roster mutation leaves, and the record
\* of the call: the roster it read, its argument, its return value
SavedBy(op, arg, saved) ==
    /\ settingsDoc' = saved.settingsDoc
    /\ saveError' = saved.saveError
    /\ listeners' = Notified("settings", settingsDoc, saved.settingsDoc)
    /\ call' = [op |-> op, arg |-> arg, result |-> saved.success,
                setDoc |-> saved.setDoc, before |-> Roster]

\* An early return of a roster mutation: the error it sets, nothing saved
Rejected(op, arg, error) ==
    /\ saveError' = error
    /\ call' = [op |-> op, arg |-> arg, result |-> FALSE, setDoc |-> FALSE,
                before |-> Roster]
    /\ UNCHANGED <<settingsDoc, listeners>>

addStaffToList(staffMemberCoreData, stored) ==
    /\ NoSnapshotDue
    /\ Len(Roster) < MaxStaff
    /\ IF globalSettings = Null \/ ~Truthy(staffMemberCoreData.id)
       THEN Rejected("addStaffToList", staffMemberCoreData,
                     "Érvénytelen dolgozói adat a hozzáadáshoz.")
       ELSE IF \E i \in DOMAIN globalSettings.staffList :
                   globalSettings.staffList[i].id = staffMemberCoreData.id
       THEN Rejected("addStaffToList", staffMemberCoreData,
                     "Hiba: azonosítójú dolgozó már létezik.")
       ELSE LET sortOrder ==
                    IF "sortOrder" \in DOMAIN staffMemberCoreData
                    THEN staffMemberCoreData.sortOrder
                    ELSE Len(globalSettings.staffList)
                newStaffList ==
                    SortBySortOrder(Append(globalSettings.staffList,
                        Merge(staffMemberCoreData, [sortOrder |-> sortOrder])))
                newSettings == [globalSettings EXCEPT !.staffList = newStaffList]
            IN  SavedBy("addStaffToList", staffMemberCoreData,
                        SaveGlobalSettings(currentUser, globalSettings, settingsDoc,
                                           newSettings, FALSE, stored))
    /\ UNCHANGED <<globalSettings, currentWeeklySchedule, settingsLoading,
                   scheduleLoading, weekDocs, pending, view, currentUser, currentWeek, effects>>

updateStaffInList(staffMemberCoreData, stored) ==
    /\ NoSnapshotDue
    /\ IF globalSettings = Null \/ ~Truthy(staffMemberCoreData.id)
       THEN Rejected("updateStaffInList", staffMemberCoreData,
                     "Érvénytelen dolgozói adat a frissítéshez.")
       ELSE LET newStaffList ==
                    SortBySortOrder(MapSeq(LAMBDA staff :
                        IF staff.id = staffMemberCoreData.id
                        THEN Merge(staff, staffMemberCoreData) ELSE staff,
                        globalSettings.staffList))
                newSettings == [globalSettings EXCEPT !.staffList = newStaffList]
            IN  SavedBy("updateStaffInList", staffMemberCoreData,
                        SaveGlobalSettings(currentUser, globalSettings, settingsDoc,
                                           newSettings, FALSE, stored))
    /\ UNCHANGED <<globalSettings, currentWeeklySchedule, settingsLoading,
                   scheduleLoading, weekDocs, pending, view, currentUser, currentWeek, effects>>

\* deleteStaffFromList up to its await; what follows the await waits in pending,
\* with the currentWeeklySchedule of the render that made the call
deleteStaffFromList(staffId, stored) ==
    /\ NoSnapshotDue
    /\ Len(pending) < MaxPending
    /\ IF globalSettings = Null \/ ~Truthy(staffId)
       THEN /\ Rejected("deleteStaffFromList", staffId,
                        "Érvénytelen dolgozói ID a törléshez.")
            /\ UNCHANGED pending
       ELSE LET newStaffList ==
                    Reindex(SelectSeq(globalSettings.staffList,
                                      LAMBDA staff : staff.id # staffId))
                newSettings == [globalSettings EXCEPT !.staffList = newStaffList]
                saved == SaveGlobalSettings(currentUser, globalSettings, settingsDoc,
                                            newSettings, FALSE, stored)
            IN  /\ SavedBy("deleteStaffFromList", staffId, saved)
                /\ pending' =
                      IF saved.success /\ HasWeeklyData(currentWeeklySchedule, staffId)
                      THEN Append(pending,
                               [op |-> "deleteStaffFromList", staffId |-> staffId,
                                currentWeeklySchedule |-> currentWeeklySchedule,
                                currentWeekStartDate |-> currentWeekStartDate])
                      ELSE pending
    /\ UNCHANGED <<globalSettings, currentWeeklySchedule, settingsLoading,
                   scheduleLoading, weekDocs, view, currentUser, currentWeek, effects>>

\* deleteStaffFromList after its await: removeStaffFromWeeklySchedule(staffId)
\* of the render that made the call
deleteStaffFromListResumed(stored) ==
    /\ NoSnapshotDue
    /\ pending # <<>> /\ Head(pending).op = "deleteStaffFromList"
    /\ LET staffId == Head(pending).staffId
           schedule == Head(pending).currentWeeklySchedule
           newSchedule ==
               [schedule EXCEPT !.staff = SelectSeq(schedule.staff,
                                              LAMBDA s : s.staffId # staffId)]
           week == Head(pending).currentWeekStartDate
           saved == SaveWeeklySchedule(currentUser, saveError, weekDocs[week],
                                       newSchedule, stored)
       IN  /\ currentWeeklySchedule' = newSchedule
           /\ weekDocs' = [weekDocs EXCEPT ![week] = saved.weekDoc]
           /\ saveError' = saved.saveError
           /\ listeners' = NotifiedWeek(weekDocs, weekDocs')
           /\ call' = [op |-> "deleteStaffFromListResumed", arg |-> staffId,
                       result |-> Undefined]
    /\ pending' = Tail(pending)
    /\ UNCHANGED <<globalSettings, settingsLoading, scheduleLoading, settingsDoc,
                   view, currentUser, currentWeek, effects>>

updateStaffListOrder(orderedStaffList, stored) ==
    /\ NoSnapshotDue
    /\ IF globalSettings = Null
       THEN /\ call' = [op |-> "updateStaffListOrder", arg |-> orderedStaffList,
                        result |-> FALSE, setDoc |-> FALSE, before |-> Roster]
            /\ UNCHANGED <<saveError, settingsDoc, listeners>>
       ELSE LET newSettings ==
                    [globalSettings EXCEPT !.staffList = Reindex(orderedStaffList)]
            IN  SavedBy("updateStaffListOrder", orderedStaffList,
                        SaveGlobalSettings(currentUser, globalSettings, settingsDoc,
                                           newSettings, FALSE, stored))
    /\ UNCHANGED <<globalSettings, currentWeeklySchedule, settingsLoading,
                   scheduleLoading, weekDocs, pending, view, currentUser, currentWeek, effects>>

----------------------------------------------------------------------------
(* The hook from its construction, on a store that holds nothing or a seeded
   account, under every call of the roster mutations *)

StaffIds == {"s1", "s2"}
\* An id that no member ever has
StrangerId == "s3"
StaffName(id) == IF id = "s2" THEN "B" ELSE "A"

\* The core data of a member as a caller hands it in, without a sortOrder
CoreData(id) ==
    [id |-> id, name |-> StaffName(id), defaultUnit |-> "A", defaultGroup |-> "",
     defaultJobTitle |-> "", isActive |-> TRUE, employeeNumber |-> Undefined]

SeededSettings ==
    Settings(<<"A">>, <<>>, <<>>,
             <<Merge(CoreData("s1"), [sortOrder |-> 0]),
               Merge(CoreData("s2"), [sortOrder |-> 1])>>)

SeededWeek ==
    [weekStartDate |-> currentWeekStartDate,
     staff |-> <<WeeklyRecord("s1", "", "", "", "", <<>>),
                 WeeklyRecord("s2", "", "", "", "", <<>>)>>]

\* The arguments of the calls: a member with or without a sortOrder, or without
\* an id; a patch of the name or of the sortOrder; an id, or none; the roster
\* in any order, or its first member alone
AddArguments ==
    {CoreData(id) : id \in StaffIds \cup {""}}
        \cup {Merge(CoreData("s2"), [sortOrder |-> 0])}
UpdateArguments ==
    {[id |-> id, name |-> "X"] : id \in {"s1", StrangerId, ""}}
        \cup {[id |-> "s2", sortOrder |-> 0]}
DeleteArguments == StaffIds \cup {StrangerId, ""}
OrderArguments ==
    {[i \in DOMAIN Roster |-> Roster[p[i]]] : p \in Perms(Len(Roster))}
        \cup {<<Roster[i]>> : i \in DOMAIN Roster \cap {1}}

Init ==
    /\ globalSettings = Null
    /\ currentWeeklySchedule = Null
    /\ settingsLoading = TRUE
    /\ scheduleLoading = TRUE
    /\ saveError = NoError
    /\ settingsDoc \in {NotFound, SeededSettings}
    /\ currentWeek = DateOf(0, 0)
    /\ weekDocs \in {NoWeekDocs, [NoWeekDocs EXCEPT ![currentWeekStartDate] = SeededWeek]}
    /\ pending = <<>>
    /\ call = NoCall
    /\ view = <<>>
    /\ currentUser = User
    /\ effects = [settings |-> TRUE, week |-> TRUE]
    /\ listeners = [settings |-> "off", week |-> "off", weekOf |-> currentWeek]

Next ==
    \/ SettingsEffect
    \/ \E stored \in BOOLEAN : SettingsSnapshot(stored)
    \/ WeekEffect
    \/ WeekSnapshot
    \/ \E data \in AddArguments, stored \in BOOLEAN : addStaffToList(data, stored)
    \/ \E data \in UpdateArguments, stored \in BOOLEAN : updateStaffInList(data, stored)
    \/ \E staffId \in DeleteArguments, stored \in BOOLEAN :
          deleteStaffFromList(staffId, stored)
    \/ \E stored \in BOOLEAN : deleteStaffFromListResumed(stored)
    \/ \E list \in OrderArguments, stored \in BOOLEAN : updateStaffListOrder(list, stored)

Spec == Init /\ [][Next]_vars

----------------------------------------------------------------------------
(* The roster claims, over the call a step makes (call', with the roster it
   read in call'.before) and the document it leaves *)

StoredRoster == IF settingsDoc = NotFound THEN <<>> ELSE settingsDoc.staffList

Ids(list) == {list[i].id : i \in DOMAIN list}

\* sortOrder 0..N-1 in list order, and no id twice
DenseUnique(list) ==
    /\ \A i \in DOMAIN list : list[i].sortOrder = i - 1
    /\ \A i, j \in DOMAIN list : i # j => list[i].id # list[j].id

RosterMutations ==
    {"addStaffToList", "updateStaffInList", "deleteStaffFromList", "updateStaffListOrder"}

\* The call reached the store and the store failed it
StoreFailed(c) == c.setDoc /\ ~c.result

\* C7 as claimed: from a dense roster, after every sequence of roster mutations
\* the roster (stored, and in memory) has sortOrder 0..N-1 in list order and
\* no two members share an id.
C7_DenseAfterEveryMutation == DenseUnique(StoredRoster) /\ DenseUnique(Roster)

\* The calls that assign sortOrder themselves: an addition without sortOrder, a
\* patch without sortOrder, a removal, an ordered list without a repeated id
AssignsSortOrder(c) ==
    \/ c.op = "addStaffToList" /\ "sortOrder" \notin DOMAIN c.arg
    \/ c.op = "updateStaffInList" /\ "sortOrder" \notin DOMAIN c.arg
    \/ c.op = "deleteStaffFromList"
    \/ c.op = "updateStaffListOrder"
          /\ \A i, j \in DOMAIN c.arg : i # j => c.arg[i].id # c.arg[j].id

\* C7 amended: a roster mutation that is given no sortOrder and no repeated id,
\* called on a roster with sortOrder 0..N-1 and unique ids, writes a roster
\* with sortOrder 0..N-1 in list order and unique ids, or fails and writes
\* nothing; the snapshot of such a stored roster loads it as it is.
C7_DensePreserved ==
    [][/\ (call'.op \in RosterMutations /\ AssignsSortOrder(call')
              /\ DenseUnique(Roster)) =>
            IF call'.result THEN DenseUnique(StoredRoster')
            ELSE settingsDoc' = settingsDoc
       /\ (call'.op = "settingsSnapshot" /\ DenseUnique(StoredRoster)) =>
            Roster' = StoredRoster]_vars

C7_Witness ==
    /\ call.op = "deleteStaffFromList" /\ call.result
    /\ Len(call.before) = 2 /\ DenseUnique(call.before)
    /\ call.before[1].id = call.arg
    /\ StoredRoster = <<Merge(call.before[2], [sortOrder |-> 0])>>

\* C8: updateStaffInList with an id that is not in the roster returns failure
\* and changes neither the roster nor the stored settings; with an id of the
\* roster it merges the patch into that member and leaves the others as they are.
C8_UpdateStaffInList ==
    [][(call'.op = "updateStaffInList" /\ globalSettings # Null
            /\ Truthy(call'.arg.id)) =>
          IF call'.arg.id \notin Ids(Roster)
          THEN /\ ~call'.result
               /\ settingsDoc' = settingsDoc
               /\ globalSettings' = globalSettings
          ELSE ~StoreFailed(call') =>
               /\ call'.result
               /\ Len(StoredRoster') = Len(Roster)
               /\ \A i \in DOMAIN Roster :
                     (IF Roster[i].id = call'.arg.id
                      THEN Merge(Roster[i], call'.arg) ELSE Roster[i])
                         \in Range(StoredRoster')]_vars

\* C9: addStaffToList with an id of the roster returns failure with an error,
\* calls no save and leaves the roster as it is; with a new id and no sortOrder
\* it appends the member with sortOrder equal to the length of the roster.
C9_AddStaffToList ==
    [][(call'.op = "addStaffToList" /\ globalSettings # Null
            /\ Truthy(call'.arg.id)) =>
          IF call'.arg.id \in Ids(Roster)
          THEN /\ ~call'.result /\ saveError' # NoError /\ ~call'.setDoc
               /\ settingsDoc' = settingsDoc
               /\ globalSettings' = globalSettings
          ELSE ("sortOrder" \notin DOMAIN call'.arg /\ ~StoreFailed(call')) =>
               /\ call'.result
               /\ StoredRoster' =
                     Append(Roster, Merge(call'.arg, [sortOrder |-> Len(Roster)]))]_vars

\* C10: deleteStaffFromList(id) leaves the other members in their order with
\* sortOrder 0..N-1 by position; with an id that is not in the roster it is a
\* no-op: every member, its sortOrder included, is as before.
C10_DeleteStaffFromList ==
    [][(call'.op = "deleteStaffFromList" /\ globalSettings # Null
            /\ Truthy(call'.arg)) =>
          IF call'.arg \in Ids(Roster)
          THEN ~StoreFailed(call') =>
               /\ call'.result
               /\ Ids(StoredRoster') = Ids(Roster) \ {call'.arg}
               /\ StoredRoster' =
                     [i \in 1..Len(StoredRoster') |->
                        [SelectSeq(Roster, LAMBDA m : m.id # call'.arg)[i]
                            EXCEPT !.sortOrder = i - 1]]
          ELSE /\ StoredRoster' = Roster
               /\ globalSettings' = globalSettings]_vars

----------------------------------------------------------------------------
(* The category registry: addCategoryItem, removeCategoryItem and a direct
   call of saveGlobalSettings, on names over a small alphabet *)

\* A category list is capped at MaxItems names
MaxItems == 2

CategoryKeys == {"units", "groups", "jobTitles"}

\* Mutant of ToLowerCase: the name as it is
ToLowerCase_Identity(s) == s

\* String.prototype.trim on the names of the model
Trim(s) ==
    CASE s = " B" -> "B"
      [] s = "A " -> "A"
      [] s = " " -> ""
      [] OTHER -> s

\* String.prototype.toLowerCase on the names of the model
ToLowerCase(s) ==
    CASE s = "A" -> "a"
      [] s = "B" -> "b"
      [] s = "X" -> "x"
      [] OTHER -> s

\* Mutant of WithoutItem: the last name removed, whichever it is
WithoutItem_Last(currentItems, item) == SubSeq(currentItems, 1, Len(currentItems) - 1)

\* currentItems.filter((i) => i !== item)
WithoutItem(currentItems, item) == SelectSeq(currentItems, LAMBDA i : i # item)

addCategoryItem(item, categoryKey, stored) ==
    /\ NoSnapshotDue
    /\ globalSettings # Null => Len(globalSettings[categoryKey]) < MaxItems
    /\ LET trimmedItem == Trim(item)
           arg == [item |-> item, categoryKey |-> categoryKey]
       IN  IF globalSettings = Null \/ ~Truthy(trimmedItem)
           THEN Rejected("addCategoryItem", arg, saveError)
           ELSE IF \E i \in DOMAIN globalSettings[categoryKey] :
                       ToLowerCase(globalSettings[categoryKey][i]) = ToLowerCase(trimmedItem)
           THEN Rejected("addCategoryItem", arg, "már létezik a listában")
           ELSE LET newSettings ==
                        [globalSettings EXCEPT
                            ![categoryKey] = Append(globalSettings[categoryKey], trimmedItem)]
                IN  SavedBy("addCategoryItem", arg,
                            SaveGlobalSettings(currentUser, globalSettings, settingsDoc,
                                               newSettings, FALSE, stored))
    /\ UNCHANGED <<globalSettings, currentWeeklySchedule, settingsLoading,
                   scheduleLoading, weekDocs, pending, view, currentUser, currentWeek,
                   effects>>

removeCategoryItem(item, categoryKey, stored) ==
    /\ NoSnapshotDue
    /\ LET arg == [item |-> item, categoryKey |-> categoryKey]
       IN  IF globalSettings = Null
           THEN Rejected("removeCategoryItem", arg,
                         "Hiba: Beállítások nincsenek betöltve a törléshez.")
           ELSE IF ~Truthy(item) \/ item \notin Range(globalSettings[categoryKey])
           THEN Rejected("removeCategoryItem", arg, saveError)
           ELSE LET newSettings ==
                        [globalSettings EXCEPT
                            ![categoryKey] = WithoutItem(globalSettings[categoryKey], item)]
                IN  SavedBy("removeCategoryItem", arg,
                            SaveGlobalSettings(currentUser, globalSettings, settingsDoc,
                                               newSettings, FALSE, stored))
    /\ UNCHANGED <<globalSettings, currentWeeklySchedule, settingsLoading,
                   scheduleLoading, weekDocs, pending, view, currentUser, currentWeek,
                   effects>>

\* saveGlobalSettings as the hook returns it, called by the display layer
saveGlobalSettings(newSettings, bypassSafetyChecks, stored) ==
    /\ NoSnapshotDue
    /\ SavedBy("saveGlobalSettings",
               [newSettings |-> newSettings, bypassSafetyChecks |-> bypassSafetyChecks],
               SaveGlobalSettings(currentUser, globalSettings, settingsDoc,
                                  newSettings, bypassSafetyChecks, stored))
    /\ UNCHANGED <<globalSettings, currentWeeklySchedule, settingsLoading,
                   scheduleLoading, weekDocs, pending, view, currentUser, currentWeek,
                   effects>>

\* The stored accounts: registries without a repeated name, no member or one
\* whose defaults name the unit "A", and a week whose record names it too
CategoryLists == {<<>>, <<"A">>, <<"A", "B">>}
CategorySettings ==
    {[Settings(units, groups, <<>>, staffList) EXCEPT !.shiftTypes = shiftTypes] :
        units \in CategoryLists, groups \in {<<>>, <<"a">>},
        staffList \in {<<>>, <<Merge(CoreData("s1"), [sortOrder |-> 0])>>},
        shiftTypes \in {<<>>, <<"DE">>}}
CategoryWeek ==
    [weekStartDate |-> 0, staff |-> <<WeeklyRecord("s1", "", "A", "a", "", <<>>)>>]

\* The arguments of the calls: a name with or without blanks around it, in
\* either case, or blank; a name of the list or not; for a direct save the
\* settings in memory without their categories, staff or shift types, or none
AddArguments_Category ==
    {[item |-> item, categoryKey |-> "units"] : item \in {"a", " B", "", " "}}
        \cup {[item |-> "A", categoryKey |-> "groups"],
              [item |-> "X", categoryKey |-> "jobTitles"]}
RemoveArguments_Category ==
    {[item |-> item, categoryKey |-> "units"] : item \in {"A", "a", "B", ""}}
        \cup {[item |-> "a", categoryKey |-> "groups"],
              [item |-> "X", categoryKey |-> "jobTitles"]}
SaveArguments ==
    IF globalSettings = Null THEN {Null, blankGlobalSettings}
    ELSE LET cleared ==
                 [globalSettings EXCEPT !.units = <<>>, !.groups = <<>>, !.jobTitles = <<>>]
         IN  {globalSettings, cleared, [cleared EXCEPT !.staffList = <<>>],
              [cleared EXCEPT !.shiftTypes = <<>>], blankGlobalSettings}

InitCategories ==
    /\ globalSettings = Null
    /\ currentWeeklySchedule = Null
    /\ settingsLoading = TRUE
    /\ scheduleLoading = TRUE
    /\ saveError = NoError
    /\ settingsDoc \in {NotFound} \cup CategorySettings
    /\ currentWeek = DateOf(0, 0)
    /\ weekDocs = [NoWeekDocs EXCEPT ![0] = CategoryWeek]
    /\ pending = <<>>
    /\ call = NoCall
    /\ view = <<>>
    /\ currentUser = User
    /\ effects = [settings |-> TRUE, week |-> TRUE]
    /\ listeners = [settings |-> "off", week |-> "off", weekOf |-> currentWeek]

NextCategories ==
    \/ SettingsEffect
    \/ \E stored \in BOOLEAN : SettingsSnapshot(stored)
    \/ WeekEffect
    \/ WeekSnapshot
    \/ \E arg \in AddArguments_Category, stored \in BOOLEAN :
          addCategoryItem(arg.item, arg.categoryKey, stored)
    \/ \E arg \in RemoveArguments_Category, stored \in BOOLEAN :
          removeCategoryItem(arg.item, arg.categoryKey, stored)
    \/ \E newSettings \in SaveArguments, bypass \in BOOLEAN, stored \in BOOLEAN :
          saveGlobalSettings(newSettings, bypass, stored)

SpecCategories == InitCategories /\ [][NextCategories]_vars

----------------------------------------------------------------------------
(* The category claims, over the call a step makes and the document it leaves *)

\* The names of the model that differ in case only
CaseClasses == {{"A", "a"}, {"B", "b"}, {"X", "x"}}
SameIgnoringCase(a, b) == a = b \/ \E class \in CaseClasses : a \in class /\ b \in class
NoCaseDuplicates(list) ==
    \A i, j \in DOMAIN list : i # j => ~SameIgnoringCase(list[i], list[j])
DuplicateFree(settings) ==
    \A key \in CategoryKeys : NoCaseDuplicates(settings[key])

\* C11: addCategoryItem trims the name; when the trimmed name is empty or
\* equals an entry of the list ignoring case it returns failure, calls no save
\* and changes neither the stored nor the loaded settings; otherwise the stored
\* list is the old list with the trimmed name at the end and the other two
\* lists are as they were. And in every state reached from registries without
\* duplicates, no two entries of a category list are equal ignoring case.
C11_AddCategoryItem ==
    /\ [][(call'.op = "addCategoryItem" /\ globalSettings # Null) =>
            LET key == call'.arg.categoryKey
                old == globalSettings[key]
                name == Trim(call'.arg.item)
            IN  IF name = "" \/ \E i \in DOMAIN old : SameIgnoringCase(old[i], name)
                THEN /\ ~call'.result /\ ~call'.setDoc
                     /\ settingsDoc' = settingsDoc
                     /\ globalSettings' = globalSettings
                ELSE ~StoreFailed(call') =>
                     /\ call'.result
                     /\ settingsDoc'[key] = Append(old, name)
                     /\ \A other \in CategoryKeys \ {key} :
                           settingsDoc'[other] = globalSettings[other]]_vars
    /\ [](/\ settingsDoc # NotFound => DuplicateFree(settingsDoc)
          /\ globalSettings # Null => DuplicateFree(globalSettings))

C11_Witness ==
    /\ call.op = "addCategoryItem" /\ call.arg = [item |-> " B", categoryKey |-> "units"]
    /\ call.result
    /\ globalSettings # Null /\ globalSettings.units = <<"A">>
    /\ settingsDoc.units = <<"A", "B">>

\* The settings have no unit, no group and no job title
NoCategories(settings) ==
    settings.units = <<>> /\ settings.groups = <<>> /\ settings.jobTitles = <<>>

\* C12: removeCategoryItem changes no member of the roster and no weekly
\* record, stored or loaded. With a name that is not in the list it returns
\* failure, calls no save and changes no settings. With a name of the list it
\* either stores the list without that entry, the others in their order and
\* the other two lists as they were, or fails and stores nothing; it fails
\* only when the store fails or when the removal would leave no category at
\* all while staff or shift types remain.
C12_RemoveCategoryItem ==
    [][(call'.op = "removeCategoryItem" /\ globalSettings # Null) =>
          LET key == call'.arg.categoryKey
              old == globalSettings[key]
              item == call'.arg.item
              kept == SelectSeq(old, LAMBDA name : name # item)
              left == [globalSettings EXCEPT ![key] = kept]
          IN  /\ weekDocs' = weekDocs
              /\ currentWeeklySchedule' = currentWeeklySchedule
              /\ StoredRoster' = StoredRoster
              /\ Roster' = Roster
              /\ IF \A i \in DOMAIN old : old[i] # item
                 THEN /\ ~call'.result /\ ~call'.setDoc
                      /\ settingsDoc' = settingsDoc
                      /\ globalSettings' = globalSettings
                 ELSE /\ call'.result <=>
                            /\ ~StoreFailed(call')
                            /\ ~(NoCategories(left)
                                    /\ (left.staffList # <<>> \/ left.shiftTypes # <<>>))
                      /\ IF call'.result
                         THEN /\ Len(kept) = Len(old) - 1
                              /\ settingsDoc'[key] = kept
                              /\ \A other \in CategoryKeys \ {key} :
                                    settingsDoc'[other] = globalSettings[other]
                         ELSE settingsDoc' = settingsDoc]_vars

C12_Witness ==
    /\ call.op = "removeCategoryItem" /\ call.arg = [item |-> "A", categoryKey |-> "units"]
    /\ call.result
    /\ globalSettings # Null /\ globalSettings.units = <<"A", "B">>
    /\ settingsDoc.units = <<"B">>
    /\ Len(settingsDoc.staffList) = 1 /\ settingsDoc.staffList[1].defaultUnit = "A"
    /\ weekDocs[0] # NotFound /\ weekDocs[0].staff[1].unit = "A"

\* C12 as claimed: removing a name of the list removes exactly that entry,
\* whenever the store takes the write.
C12_RemovesWheneverListed ==
    [][(call'.op = "removeCategoryItem" /\ globalSettings # Null
            /\ call'.arg.item \in Range(globalSettings[call'.arg.categoryKey])
            /\ ~StoreFailed(call')) =>
          /\ call'.result
          /\ settingsDoc'[call'.arg.categoryKey] =
                SelectSeq(globalSettings[call'.arg.categoryKey],
                          LAMBDA name : name # call'.arg.item)]_vars

\* C13: saveGlobalSettings without the bypass flag, called while the loaded
\* settings hold a category, with new settings that hold no unit, no group and
\* no job title but staff or shift types, returns failure, sets an error and
\* writes nothing to the store; with the bypass flag every call reaches the
\* store, and fails only if the store fails.
C13_SafetyCheck ==
    [][(call'.op = "saveGlobalSettings" /\ call'.arg.newSettings # Null) =>
          LET newSettings == call'.arg.newSettings
          IN  /\ (/\ ~call'.arg.bypassSafetyChecks
                  /\ globalSettings # Null /\ ~NoCategories(globalSettings)
                  /\ NoCategories(newSettings)
                  /\ (newSettings.staffList # <<>> \/ newSettings.shiftTypes # <<>>)) =>
                    /\ ~call'.result /\ ~call'.setDoc
                    /\ saveError' # NoError
                    /\ settingsDoc' = settingsDoc
              /\ call'.arg.bypassSafetyChecks =>
                    /\ call'.setDoc
                    /\ call'.result \/ StoreFailed(call')
                    /\ call'.result => settingsDoc' # NotFound
                          /\ \A key \in CategoryKeys : settingsDoc'[key] = newSettings[key]]_vars

\* A refused call, and before it a bypassed call that emptied the registries
C13_Witness ==
    /\ call.op = "saveGlobalSettings" /\ ~call.arg.bypassSafetyChecks
    /\ call.arg.newSettings # Null /\ NoCategories(call.arg.newSettings)
    /\ call.arg.newSettings.staffList # <<>>
    /\ globalSettings # Null /\ ~NoCategories(globalSettings)
    /\ ~call.result /\ ~call.setDoc /\ saveError # NoError
    /\ settingsDoc # NotFound /\ ~NoCategories(settingsDoc)

----------------------------------------------------------------------------
(* The weekly override store: the upsert and the removal of a weekly record,
   the copy of a week, and the week navigation of the display layer *)

\* getWeekDates(startDate): the six Dates from startDate on
getWeekDates(startDate) == [index \in 1..6 |-> AddDays(startDate, index - 1)]

\* formatDate(date): the local calendar day, as a day number
formatDate(date) == date.day

\* The week in which the sessions take place: getCurrentMonday() is its Monday
ThisWeek == MaxWeek
\* The weeks that the display visits: this week and the one before
NavigableWeeks == (ThisWeek - 1)..ThisWeek

\* isLoading of the display layer, which disables the navigation and the copy
isLoading == settingsLoading \/ scheduleLoading

\* changeWeek(direction) of the display layer
changeWeek(direction) ==
    /\ NoSnapshotDue /\ ~effects.week /\ ~isLoading
    /\ AddDays(currentWeek, direction * 7).day \in {7 * w : w \in NavigableWeeks}
    /\ currentWeek' = AddDays(currentWeek, direction * 7)
    /\ effects' = [effects EXCEPT !.week = TRUE]
    /\ call' = [op |-> "changeWeek", arg |-> direction, result |-> Undefined]
    /\ UNCHANGED <<globalSettings, currentWeeklySchedule, settingsLoading, scheduleLoading,
                   saveError, settingsDoc, weekDocs, pending, view, currentUser, listeners>>

\* jumpToCurrentWeek() of the display layer: getCurrentMonday() at the time of
\* the call, whose clock shows utcShift
jumpToCurrentWeek(utcShift) ==
    /\ NoSnapshotDue /\ ~effects.week /\ ~isLoading
    /\ currentWeek' = DateOf(7 * ThisWeek, utcShift)
    /\ effects' = [effects EXCEPT !.week = TRUE]
    /\ call' = [op |-> "jumpToCurrentWeek", arg |-> utcShift, result |-> Undefined]
    /\ UNCHANGED <<globalSettings, currentWeeklySchedule, settingsLoading, scheduleLoading,
                   saveError, settingsDoc, weekDocs, pending, view, currentUser, listeners>>

\* What a call of saveWeeklySchedule(currentWeekStartDate, newSchedule) by a
\* weekly mutation leaves, after its optimistic update
SavedWeekBy(op, arg, newSchedule, stored) ==
    LET saved == SaveWeeklySchedule(currentUser, saveError, weekDocs[currentWeekStartDate],
                                    newSchedule, stored)
    IN  /\ currentWeeklySchedule' = newSchedule
        /\ weekDocs' = [weekDocs EXCEPT ![currentWeekStartDate] = saved.weekDoc]
        /\ saveError' = saved.saveError
        /\ listeners' = NotifiedWeek(weekDocs, weekDocs')
        /\ call' = [op |-> op, arg |-> arg, result |-> Undefined, setDoc |-> TRUE,
                    stored |-> stored, before |-> currentWeeklySchedule]

\* An early return of a weekly mutation: the error it sets, nothing saved
RejectedWeek(op, arg, error) ==
    /\ saveError' = error
    /\ call' = [op |-> op, arg |-> arg, result |-> Undefined, setDoc |-> FALSE,
                before |-> currentWeeklySchedule]
    /\ UNCHANGED <<currentWeeklySchedule, weekDocs, listeners>>

\* Mutant of ReplaceRecord: the supplied fields spread over the old record
ReplaceRecord_Merged(old, dataToStore) ==
    [dataToStore EXCEPT !.shifts =
        [d \in DOMAIN old.shifts \cup DOMAIN dataToStore.shifts |->
            IF d \in DOMAIN dataToStore.shifts THEN dataToStore.shifts[d]
            ELSE old.shifts[d]]]

\* index === existingIndex ? dataToStore : staff
ReplaceRecord(old, dataToStore) == dataToStore

\* The body of updateStaffInWeeklySchedule, in whatever state it is called
updateStaffInWeeklyScheduleCall(staffMemberWeeklyData, stored) ==
    /\ IF ~Truthy(staffMemberWeeklyData.staffId)
       THEN RejectedWeek("updateStaffInWeeklySchedule", staffMemberWeeklyData,
                         "Hiba: Érvénytelen heti dolgozói adat a frissítéshez.")
       ELSE LET baseSchedule ==
                    IF currentWeeklySchedule # Null THEN currentWeeklySchedule
                    ELSE defaultWeeklySchedule(currentWeek)
                matches == {i \in DOMAIN baseSchedule.staff :
                               baseSchedule.staff[i].staffId = staffMemberWeeklyData.staffId}
                dataToStore ==
                    [staffId |-> staffMemberWeeklyData.staffId,
                     name |-> OrEmpty(staffMemberWeeklyData.name),
                     unit |-> OrEmpty(staffMemberWeeklyData.unit),
                     group |-> OrEmpty(staffMemberWeeklyData.group),
                     jobTitle |-> OrEmpty(staffMemberWeeklyData.jobTitle),
                     shifts |-> staffMemberWeeklyData.shifts]
                newStaffArray ==
                    IF matches # {}
                    THEN LET existingIndex == CHOOSE i \in matches : \A j \in matches : i <= j
                         IN  [index \in DOMAIN baseSchedule.staff |->
                                IF index = existingIndex
                                THEN ReplaceRecord(baseSchedule.staff[index], dataToStore)
                                ELSE baseSchedule.staff[index]]
                    ELSE Append(baseSchedule.staff, dataToStore)
                newSchedule == [baseSchedule EXCEPT !.staff = newStaffArray]
            IN  SavedWeekBy("updateStaffInWeeklySchedule", staffMemberWeeklyData,
                            newSchedule, stored)
    /\ UNCHANGED <<globalSettings, settingsLoading, scheduleLoading, settingsDoc, pending,
                   view, currentUser, currentWeek, effects>>

\* updateStaffInWeeklySchedule called once the snapshots that are owed have
\* been delivered
updateStaffInWeeklySchedule(staffMemberWeeklyData, stored) ==
    /\ NoSnapshotDue /\ ~effects.week
    /\ updateStaffInWeeklyScheduleCall(staffMemberWeeklyData, stored)

\* Mutant of WithoutRecord: the first record removed, whichever it is
WithoutRecord_First(staff, staffId) == Tail(staff)

\* currentWeeklySchedule.staff.filter((s) => s.staffId !== staffId)
WithoutRecord(staff, staffId) == SelectSeq(staff, LAMBDA s : s.staffId # staffId)

removeStaffFromWeeklySchedule(staffId, stored) ==
    /\ NoSnapshotDue /\ ~effects.week
    /\ IF currentWeeklySchedule = Null \/ ~HasWeeklyData(currentWeeklySchedule, staffId)
       THEN RejectedWeek("removeStaffFromWeeklySchedule", staffId, saveError)
       ELSE LET newSchedule ==
                    [currentWeeklySchedule EXCEPT
                        !.staff = WithoutRecord(currentWeeklySchedule.staff, staffId)]
            IN  SavedWeekBy("removeStaffFromWeeklySchedule", staffId, newSchedule, stored)
    /\ UNCHANGED <<globalSettings, settingsLoading, scheduleLoading, settingsDoc, pending,
                   view, currentUser, currentWeek, effects>>

\* Mutant of IsCopied: the records of inactive members are copied too
IsCopied_Listed(staffList, sourceStaff) ==
    \E i \in DOMAIN staffList : staffList[i].id = sourceStaff.staffId

\* globalStaffInfo && globalStaffInfo.isActive, for the record of the source
IsCopied(staffList, sourceStaff) ==
    \E i \in DOMAIN staffList :
        staffList[i].id = sourceStaff.staffId /\ staffList[i].isActive

\* Mutant of SourceDay: the day of the source week counted from its end
SourceDay_Mirrored(sourceWeekDate, dayIndex) == AddDays(sourceWeekDate, 5 - dayIndex)

\* sourceDayDate: new Date(sourceWeekDate), setDate(getDate() + dayIndex)
SourceDay(sourceWeekDate, dayIndex) == AddDays(sourceWeekDate, dayIndex)

\* newShifts: for each Date of the target week the shift of the source record
\* on the day of the same index, or ""
NewShifts(sourceStaff, sourceWeekDate, targetWeekDate) ==
    LET targetWeekDates == getWeekDates(targetWeekDate)
        dayIndex(targetDateStr) ==
            CHOOSE index \in 0..5 : ISODate(targetWeekDates[index + 1]) = targetDateStr
    IN  [targetDateStr \in {ISODate(targetWeekDates[index]) : index \in 1..6} |->
            LET sourceDayDateStr == ISODate(SourceDay(sourceWeekDate, dayIndex(targetDateStr)))
            IN  IF sourceDayDateStr \in DOMAIN sourceStaff.shifts
                THEN OrEmpty(sourceStaff.shifts[sourceDayDateStr])
                ELSE ""]

\* newTargetSchedule of copyScheduleFromWeek, from the data of the source
\* document and the roster of the render that made the call
NewTargetSchedule(sourceData, staffList, sourceWeekDate, targetWeekDate) ==
    LET globalStaffInfo(sourceStaff) ==
            staffList[CHOOSE i \in DOMAIN staffList : staffList[i].id = sourceStaff.staffId]
        copied == SelectSeq(sourceData.staff, LAMBDA sourceStaff : IsCopied(staffList, sourceStaff))
    IN  [weekStartDate |-> ISODate(targetWeekDate),
         staff |-> [i \in DOMAIN copied |->
            [staffId |-> copied[i].staffId,
             name |-> Coalesce(copied[i].name, globalStaffInfo(copied[i]).name),
             unit |-> Coalesce(copied[i].unit, globalStaffInfo(copied[i]).defaultUnit),
             group |-> Coalesce(copied[i].group, globalStaffInfo(copied[i]).defaultGroup),
             jobTitle |-> Coalesce(copied[i].jobTitle,
                                   globalStaffInfo(copied[i]).defaultJobTitle),
             shifts |-> NewShifts(copied[i], sourceWeekDate, targetWeekDate)]]]

\* Mutant of SetDoc: the document is written although the call is rejected
SetDoc_Rejected(docs, week, data, stored) == [docs EXCEPT ![week] = data]

\* setDoc(targetDocRef, newTargetSchedule): the document is replaced, unless
\* the store rejects the call
SetDoc(docs, week, data, stored) ==
    IF stored THEN [docs EXCEPT ![week] = data] ELSE docs

\* isCopying of the display layer: a copy is in flight, and the copy is
\* disabled
isCopying == \E i \in DOMAIN pending : pending[i].op = "copyScheduleFromWeek"

\* copyScheduleFromWeek up to its first await, the getDoc of the source week;
\* what follows waits in pending, with the values of the render that made the call
copyScheduleFromWeek(sourceWeekDate, targetWeekDate) ==
    /\ NoSnapshotDue /\ ~effects.week
    /\ Len(pending) < MaxPending /\ ~isCopying /\ ~isLoading
    /\ call' = [op |-> "copyScheduleFromWeek",
                arg |-> [sourceWeekDate |-> sourceWeekDate, targetWeekDate |-> targetWeekDate],
                result |-> IF currentUser = Null \/ globalSettings = Null
                           THEN "false" ELSE Undefined]
    /\ IF currentUser = Null \/ globalSettings = Null
       THEN UNCHANGED <<scheduleLoading, saveError, pending>>
       ELSE /\ scheduleLoading' = TRUE
            /\ saveError' = NoError
            /\ pending' = Append(pending,
                  [op |-> "copyScheduleFromWeek", await |-> "getDoc",
                   sourceWeekDate |-> sourceWeekDate, targetWeekDate |-> targetWeekDate,
                   globalSettings |-> globalSettings,
                   currentWeekStartDate |-> currentWeekStartDate])
    /\ UNCHANGED <<globalSettings, currentWeeklySchedule, settingsLoading, settingsDoc,
                   weekDocs, view, currentUser, currentWeek, effects, listeners>>

\* copyScheduleFromWeek from the answer of getDoc to its second await, the
\* setDoc of the target week: read tells whether getDoc resolves, stored
\* whether setDoc will
copyScheduleFromWeekRead(read, stored) ==
    /\ NoSnapshotDue
    /\ pending # <<>> /\ Head(pending).op = "copyScheduleFromWeek"
    /\ Head(pending).await = "getDoc"
    /\ LET copy == Head(pending)
           sourceWeekStr == ISODate(copy.sourceWeekDate)
           targetWeekStr == ISODate(copy.targetWeekDate)
           newTargetSchedule ==
               NewTargetSchedule(weekDocs[sourceWeekStr], copy.globalSettings.staffList,
                                 copy.sourceWeekDate, copy.targetWeekDate)
           arg == [sourceWeekDate |-> copy.sourceWeekDate,
                   targetWeekDate |-> copy.targetWeekDate]
       IN  IF ~read
           THEN /\ saveError' = "Másolás sikertelen"
                /\ scheduleLoading' = FALSE
                /\ pending' = Tail(pending)
                /\ call' = [op |-> "copyScheduleFromWeekRead", arg |-> arg,
                            result |-> "false"]
                /\ UNCHANGED <<weekDocs, listeners>>
           ELSE IF weekDocs[sourceWeekStr] = NotFound
           THEN /\ scheduleLoading' = FALSE
                /\ pending' = Tail(pending)
                /\ call' = [op |-> "copyScheduleFromWeekRead", arg |-> arg,
                            result |-> "false"]
                /\ UNCHANGED <<saveError, weekDocs, listeners>>
           ELSE /\ weekDocs' = SetDoc(weekDocs, targetWeekStr, newTargetSchedule, stored)
                /\ listeners' = NotifiedWeek(weekDocs, weekDocs')
                /\ pending' = <<[copy EXCEPT !.await = "setDoc"] @@
                                 [stored |-> stored,
                                  newTargetSchedule |-> newTargetSchedule]>>
                               \o Tail(pending)
                /\ call' = [op |-> "copyScheduleFromWeekRead", arg |-> arg,
                            result |-> Undefined]
                /\ UNCHANGED <<saveError, scheduleLoading>>
    /\ UNCHANGED <<globalSettings, currentWeeklySchedule, settingsLoading, settingsDoc,
                   view, currentUser, currentWeek, effects>>

\* copyScheduleFromWeek after the answer of setDoc
copyScheduleFromWeekResumed ==
    /\ NoSnapshotDue
    /\ pending # <<>> /\ Head(pending).op = "copyScheduleFromWeek"
    /\ Head(pending).await = "setDoc"
    /\ LET copy == Head(pending)
           arg == [sourceWeekDate |-> copy.sourceWeekDate,
                   targetWeekDate |-> copy.targetWeekDate]
       IN  IF copy.stored
           THEN /\ currentWeeklySchedule' =
                      IF ISODate(copy.targetWeekDate) = copy.currentWeekStartDate
                      THEN copy.newTargetSchedule ELSE currentWeeklySchedule
                /\ call' = [op |-> "copyScheduleFromWeekResumed", arg |-> arg,
                            result |-> "true"]
                /\ UNCHANGED saveError
           ELSE /\ saveError' = "Másolás sikertelen"
                /\ call' = [op |-> "copyScheduleFromWeekResumed", arg |-> arg,
                            result |-> "false"]
                /\ UNCHANGED currentWeeklySchedule
    /\ scheduleLoading' = FALSE
    /\ pending' = Tail(pending)
    /\ UNCHANGED <<globalSettings, settingsLoading, settingsDoc, weekDocs, view,
                   currentUser, currentWeek, effects, listeners>>

----------------------------------------------------------------------------
(* The hook from its construction on an account whose roster has an active
   and an inactive member, under the weekly mutations, the copy of a week and
   the week navigation *)

WeekSettings ==
    Settings(<<"A">>, <<>>, <<>>,
             <<Member("s1", "A", "A", "", "", TRUE, 0),
               Member("s2", "B", "A", "", "", FALSE, 1)>>)

\* The shifts map with one code, on the day of the given index of the week
ShiftOn(weekDate, dayIndex, code) ==
    [dateStr \in {ISODate(AddDays(weekDate, dayIndex))} |-> code]

\* A stored week: records of the active member, of the inactive member and of
\* a member that is in no roster, the first with a shift on Tuesday
StoredWeek(weekDate) ==
    [weekStartDate |-> ISODate(weekDate),
     staff |-> <<WeeklyRecord("s1", "", "B", "", "", ShiftOn(weekDate, 1, "DE")),
                 WeeklyRecord("s2", "", "", "", "", <<>>),
                 WeeklyRecord(StrangerId, "X", "", "", "", <<>>)>>]

\* The arguments of the calls: the fields of a record with a shift on Monday
\* of the displayed week, or without a staffId; an id; a week one or two weeks
\* before the displayed one; the clock of the session
UpsertArguments ==
    {WeeklyRecord("s1", Undefined, "A", "", "", ShiftOn(currentWeek, 0, "N")),
     WeeklyRecord("", "", "", "", "", <<>>)}
RemoveArguments == {"s1"}
CopyArguments ==
    {weeksAgo \in {0 - 1, 0 - 2} : AddDays(currentWeek, weeksAgo * 7).day >= 0}

JumpArguments == {currentWeek.utcShift}
\* The Monday two weeks before this week
EarlierWeek(utcShift) == DateOf(7 * (ThisWeek - 2), utcShift)

InitWeek ==
    /\ globalSettings = Null
    /\ currentWeeklySchedule = Null
    /\ settingsLoading = TRUE
    /\ scheduleLoading = TRUE
    /\ saveError = NoError
    /\ settingsDoc = WeekSettings
    /\ \E utcShift \in UTCShifts :
          /\ currentWeek = DateOf(7 * ThisWeek, utcShift)
          /\ weekDocs \in {NoWeekDocs,
                           [NoWeekDocs EXCEPT
                               ![ISODate(EarlierWeek(utcShift))] =
                                   StoredWeek(EarlierWeek(utcShift)),
                               ![ISODate(AddDays(EarlierWeek(utcShift), 7))] =
                                   StoredWeek(AddDays(EarlierWeek(utcShift), 7))]}
    /\ pending = <<>>
    /\ call = NoCall
    /\ view = <<>>
    /\ currentUser = User
    /\ effects = [settings |-> TRUE, week |-> TRUE]
    /\ listeners = [settings |-> "off", week |-> "off", weekOf |-> currentWeek]

NextWeek ==
    \/ SettingsEffect
    \/ \E stored \in BOOLEAN : SettingsSnapshot(stored)
    \/ WeekEffect
    \/ WeekSnapshot
    \/ \E direction \in {0 - 1, 1} : changeWeek(direction)
    \/ \E utcShift \in JumpArguments : jumpToCurrentWeek(utcShift)
    \/ \E data \in UpsertArguments, stored \in BOOLEAN :
          updateStaffInWeeklySchedule(data, stored)
    \/ \E staffId \in RemoveArguments, stored \in BOOLEAN :
          removeStaffFromWeeklySchedule(staffId, stored)
    \/ \E weeksAgo \in CopyArguments :
          copyScheduleFromWeek(AddDays(currentWeek, weeksAgo * 7), currentWeek)
    \/ \E read \in BOOLEAN, stored \in BOOLEAN : copyScheduleFromWeekRead(read, stored)
    \/ copyScheduleFromWeekResumed

SpecWeek == InitWeek /\ [][NextWeek]_vars

----------------------------------------------------------------------------
(* The weekly claims, over the call a step makes (call', with the schedule it
   read in call'.before) and the schedule and the documents it leaves *)

\* The positions of the records of an id in a list of weekly records
RecordsOf(staff, id) == {i \in DOMAIN staff : staff[i].staffId = id}

AtMostOnePerStaff(schedule) ==
    \A i, j \in DOMAIN schedule.staff :
        i # j => schedule.staff[i].staffId # schedule.staff[j].staffId

\* The record that holds the supplied fields and nothing else: a field that
\* is not supplied is empty
SuppliedOnly(fields) ==
    [staffId |-> fields.staffId,
     name |-> IF fields.name = Undefined THEN "" ELSE fields.name,
     unit |-> IF fields.unit = Undefined THEN "" ELSE fields.unit,
     group |-> IF fields.group = Undefined THEN "" ELSE fields.group,
     jobTitle |-> IF fields.jobTitle = Undefined THEN "" ELSE fields.jobTitle,
     shifts |-> fields.shifts]

\* The write of a weekly mutation: the document of the displayed week holds
\* the schedule left in memory, or the store failed and holds what it held
WrittenOrFailed ==
    \/ weekDocs' = [weekDocs EXCEPT ![currentWeekStartDate] = currentWeeklySchedule']
    \/ weekDocs' = weekDocs /\ saveError' # NoError

\* C14: updateStaffInWeeklySchedule(fields) leaves the week with exactly one
\* record of fields.staffId, which holds the supplied fields and nothing of
\* the record before (its shifts map has the supplied days only); the other
\* records are as they were, and an id without a record gets its record at
\* the end. And in every state no weekly schedule, loaded or stored, has two
\* records of one staffId.
C14_UpsertReplaces ==
    /\ [][(call'.op = "updateStaffInWeeklySchedule" /\ Truthy(call'.arg.staffId)) =>
            LET id == call'.arg.staffId
                old == WeeklyStaff(currentWeeklySchedule)
                new == currentWeeklySchedule'.staff
            IN  /\ Cardinality(RecordsOf(new, id)) = 1
                /\ \A i \in RecordsOf(new, id) :
                      /\ new[i] = SuppliedOnly(call'.arg)
                      /\ DOMAIN new[i].shifts = DOMAIN call'.arg.shifts
                /\ IF RecordsOf(old, id) = {}
                   THEN new = Append(old, SuppliedOnly(call'.arg))
                   ELSE /\ Len(new) = Len(old)
                        /\ \A i \in DOMAIN old : old[i].staffId # id => new[i] = old[i]
                /\ WrittenOrFailed]_vars
    /\ [](/\ currentWeeklySchedule # Null => AtMostOnePerStaff(currentWeeklySchedule)
          /\ \A week \in WeekKeys :
                weekDocs[week] # NotFound => AtMostOnePerStaff(weekDocs[week]))

\* An upsert over a record that had a shift on a day that is not supplied
C14_Witness ==
    /\ call.op = "updateStaffInWeeklySchedule" /\ call.arg.staffId = "s1"
    /\ call.before # Null
    /\ \E i \in RecordsOf(call.before.staff, "s1") :
          /\ DOMAIN call.before.staff[i].shifts \ DOMAIN call.arg.shifts # {}
          /\ currentWeeklySchedule.staff[i] = SuppliedOnly(call.arg)
    /\ weekDocs[currentWeekStartDate] = currentWeeklySchedule

\* C15: removeStaffFromWeeklySchedule(staffId) leaves the displayed week
\* without the record of staffId, the other records as they were and in their
\* order; when the week has no record of staffId, or no schedule is loaded,
\* it calls no save and changes no state.
C15_RemoveWeeklyRecord ==
    [][call'.op = "removeStaffFromWeeklySchedule" =>
          IF RecordsOf(WeeklyStaff(currentWeeklySchedule), call'.arg) = {}
          THEN /\ ~call'.setDoc
               /\ UNCHANGED <<globalSettings, currentWeeklySchedule, settingsLoading,
                              scheduleLoading, saveError, settingsDoc, weekDocs, pending,
                              view, currentUser, effects, listeners, currentWeek>>
          ELSE /\ currentWeeklySchedule' =
                     [currentWeeklySchedule EXCEPT
                         !.staff = SelectSeq(currentWeeklySchedule.staff,
                                             LAMBDA record : record.staffId # call'.arg)]
               /\ Len(currentWeeklySchedule'.staff) = Len(currentWeeklySchedule.staff) - 1
               /\ WrittenOrFailed]_vars

\* A removal from a week with two records after the one removed
C15_Witness ==
    /\ call.op = "removeStaffFromWeeklySchedule" /\ call.arg = "s1"
    /\ call.before # Null /\ Len(call.before.staff) = 3
    /\ call.before.staff[1].staffId = "s1"
    /\ currentWeeklySchedule.staff = <<call.before.staff[2], call.before.staff[3]>>
    /\ weekDocs[currentWeekStartDate] = currentWeeklySchedule

\* The steps that write a weekly document: the upsert, the removal (called
\* directly or by deleteStaffFromList) and the copy
WeeklyWriters ==
    {"updateStaffInWeeklySchedule", "removeStaffFromWeeklySchedule",
     "deleteStaffFromListResumed", "copyScheduleFromWeekRead"}

\* The week that the weekly listener serves has no document
ServesMissingWeek == weekDocs[ISODate(listeners.weekOf)] = NotFound

\* C16: the snapshot of a week without a document leaves in memory the empty
\* schedule of that week, whose weekStartDate is the Monday of the week and
\* which has no record, and writes no document; and a step that changes a
\* weekly document is an upsert, a removal or a copy.
C16_LazyEmptyWeek ==
    [][/\ (call'.op = "weekSnapshot" /\ ServesMissingWeek) =>
            /\ currentWeeklySchedule' =
                  [weekStartDate |-> formatDate(listeners.weekOf), staff |-> <<>>]
            /\ weekDocs' = weekDocs
       /\ weekDocs' # weekDocs => call'.op \in WeeklyWriters]_vars

\* C16 with the date string that the code computes, the UTC day of the Date:
\* this holds
C16_LazyEmptyWeekUTC ==
    [][/\ (call'.op = "weekSnapshot" /\ ServesMissingWeek) =>
            /\ currentWeeklySchedule' =
                  [weekStartDate |-> ISODate(listeners.weekOf), staff |-> <<>>]
            /\ weekDocs' = weekDocs
       /\ weekDocs' # weekDocs => call'.op \in WeeklyWriters]_vars

\* A step of the copy that has read the source and called setDoc: the
\* document it read, the roster of the render that made the call, the
\* arguments of the call and the schedule produced
CopyProduced == call'.op = "copyScheduleFromWeekRead" /\ call'.result = Undefined
CopySource == weekDocs[ISODate(Head(pending).sourceWeekDate)]
CopyRoster == Head(pending).globalSettings.staffList
CopyTarget == Head(pending).targetWeekDate
Produced == Head(pending').newTargetSchedule

\* C17: the schedule that copyScheduleFromWeek produces has a record of a
\* staffId exactly when the source week has one and the roster at the time of
\* the call lists the id with isActive true; and the copy goes on to its write
\* whenever the source document was read, whatever records it drops.
C17_CopyKeepsActiveOnly ==
    [][call'.op = "copyScheduleFromWeekRead" =>
          /\ CopyProduced =>
                \A id \in StaffIds \cup {StrangerId} :
                    RecordsOf(Produced.staff, id) # {} <=>
                        /\ RecordsOf(CopySource.staff, id) # {}
                        /\ \E i \in DOMAIN CopyRoster :
                              CopyRoster[i].id = id /\ CopyRoster[i].isActive
          /\ ~CopyProduced => CopySource = NotFound \/ saveError' # NoError]_vars

\* A copy from a week with records of an active, an inactive and an unlisted
\* member, which went through with the first alone
C17_Witness ==
    /\ call.op = "copyScheduleFromWeekResumed" /\ call.result = "true"
    /\ weekDocs[ISODate(call.arg.sourceWeekDate)] # NotFound
    /\ {r.staffId : r \in Range(weekDocs[ISODate(call.arg.sourceWeekDate)].staff)}
          = {"s1", "s2", StrangerId}
    /\ {r.staffId : r \in Range(weekDocs[ISODate(call.arg.targetWeekDate)].staff)} = {"s1"}
    /\ currentWeeklySchedule = weekDocs[ISODate(call.arg.targetWeekDate)]

\* The record of the source week from which a record of the copy was made
SourceRecord(record) ==
    CopySource.staff[CHOOSE i \in DOMAIN CopySource.staff :
                        CopySource.staff[i].staffId = record.staffId]

\* The shift of a record on a day, "" when it has none
ShiftAt(record, day) == IF day \in DOMAIN record.shifts THEN record.shifts[day] ELSE ""

\* C18: every record of a copy from week W to week W' has a shifts map with
\* exactly six keys, the dates of Monday to Saturday of W', and under the date
\* of day i of W' the shift that the source record has under the date of day
\* i of W, or "" when it has none; for adjacent weeks and for others.
C18_ShiftsByDayIndex ==
    [][CopyProduced =>
          \A record \in Range(Produced.staff) :
              /\ DOMAIN record.shifts =
                    {formatDate(AddDays(CopyTarget, i)) : i \in 0..5}
              /\ \A i \in 0..5 :
                    record.shifts[formatDate(AddDays(CopyTarget, i))] =
                        ShiftAt(SourceRecord(record),
                                formatDate(AddDays(Head(pending).sourceWeekDate, i)))]_vars

\* C18 with the date strings that the code computes, the UTC days of the six
\* Dates: this holds
C18_ShiftsByDayIndexUTC ==
    [][CopyProduced =>
          \A record \in Range(Produced.staff) :
              /\ DOMAIN record.shifts =
                    {ISODate(AddDays(CopyTarget, i)) : i \in 0..5}
              /\ \A i \in 0..5 :
                    record.shifts[ISODate(AddDays(CopyTarget, i))] =
                        ShiftAt(SourceRecord(record),
                                ISODate(AddDays(Head(pending).sourceWeekDate, i)))]_vars

\* C19: copyScheduleFromWeek returns failure when the source week has no
\* document, and a copy that returns failure has changed neither a weekly
\* document nor the schedule in memory: not when the source is missing, not
\* when the read fails, not when the write fails; in the last two cases an
\* error is set.
C19_FailedCopy ==
    [][/\ (call'.op = "copyScheduleFromWeekRead" /\ CopySource = NotFound) =>
            call'.result = "false"
       /\ (call'.op = "copyScheduleFromWeekRead" /\ call'.result = "false") =>
            /\ weekDocs' = weekDocs
            /\ currentWeeklySchedule' = currentWeeklySchedule
            /\ CopySource = NotFound \/ saveError' # NoError
       /\ (CopyProduced /\ ~Head(pending').stored) =>
            /\ weekDocs' = weekDocs
            /\ currentWeeklySchedule' = currentWeeklySchedule
       /\ (call'.op = "copyScheduleFromWeekResumed" /\ call'.result = "false") =>
            /\ ~Head(pending).stored
            /\ weekDocs' = weekDocs
            /\ currentWeeklySchedule' = currentWeeklySchedule
            /\ saveError' # NoError]_vars

\* A copy from a week without a document into a week that has one, loaded
C19_Witness ==
    /\ call.op = "copyScheduleFromWeekRead" /\ call.result = "false"
    /\ weekDocs[ISODate(call.arg.sourceWeekDate)] = NotFound
    /\ weekDocs[ISODate(call.arg.targetWeekDate)] # NotFound
    /\ currentWeeklySchedule = weekDocs[ISODate(call.arg.targetWeekDate)]
    /\ currentWeeklySchedule.staff # <<>>
    /\ saveError = NoError

\* A step of the copy whose write the store takes
CopyWritten == CopyProduced /\ Head(pending').stored

\* C20: a copy that succeeds leaves as the document of the target week
\* exactly the schedule produced from the source: its records are those made
\* from the source records, a record that the target had and the source has
\* not is gone, and its weekStartDate is the Monday of the target week.
C20_CopyReplacesTarget ==
    [][CopyWritten =>
          /\ weekDocs'[ISODate(CopyTarget)] = Produced
          /\ \A record \in Range(weekDocs'[ISODate(CopyTarget)].staff) :
                RecordsOf(CopySource.staff, record.staffId) # {}
          /\ Produced.weekStartDate = formatDate(CopyTarget)]_vars

\* C20 with the date string that the code computes, the UTC day of the Date:
\* this holds
C20_CopyReplacesTargetUTC ==
    [][CopyWritten =>
          /\ weekDocs'[ISODate(CopyTarget)] = Produced
          /\ \A record \in Range(weekDocs'[ISODate(CopyTarget)].staff) :
                RecordsOf(CopySource.staff, record.staffId) # {}
          /\ Produced.weekStartDate = ISODate(CopyTarget)]_vars

\* A copy into a week that had a record of a member of whom the source has none
C20_Reached ==
    /\ call.op = "copyScheduleFromWeekResumed" /\ call.result = "true"
    /\ weekDocs[ISODate(call.arg.targetWeekDate)].staff = <<>>
    /\ RecordsOf(weekDocs[ISODate(call.arg.sourceWeekDate)].staff, "s1") = {}
    /\ currentWeeklySchedule = weekDocs[ISODate(call.arg.targetWeekDate)]

----------------------------------------------------------------------------
(* The copy of a week over the rosters and the weeks of the view engine: a
   member whose defaults are set or absent, and its record in the source week
   with every field set, empty or absent *)

\* The week that is copied and the week that is displayed
CopiedWeek == DateOf(0, 0)
DisplayedWeek == DateOf(7, 0)

InitCopy ==
    /\ \E staffList \in ViewRosters :
          /\ globalSettings = Settings(<<"B", "A">>, <<"B", "A">>, <<"B", "A">>, staffList)
          /\ settingsDoc = globalSettings
    /\ currentWeek = DisplayedWeek
    /\ currentWeeklySchedule = defaultWeeklySchedule(currentWeek)
    /\ \E week \in ViewWeeks :
          weekDocs = [NoWeekDocs EXCEPT ![ISODate(CopiedWeek)] = week]
    /\ settingsLoading = FALSE
    /\ scheduleLoading = FALSE
    /\ saveError = NoError
    /\ pending = <<>>
    /\ call = NoCall
    /\ view = <<>>
    /\ currentUser = User
    /\ effects = [settings |-> FALSE, week |-> FALSE]
    /\ listeners = [settings |-> "idle", week |-> "idle", weekOf |-> currentWeek]

NextCopy ==
    \/ copyScheduleFromWeek(CopiedWeek, currentWeek)
    \/ \E read \in BOOLEAN, stored \in BOOLEAN : copyScheduleFromWeekRead(read, stored)
    \/ copyScheduleFromWeekResumed
    \/ WeekSnapshot
    \/ GetStaffByUnit

SpecCopy == InitCopy /\ [][NextCopy]_vars

\* The fields of a weekly record that are not shifts
CarriedFields == {"name", "unit", "group", "jobTitle"}

\* The roster entry of a record of the copy, in the roster of the call
CopyMember(record) ==
    CopyRoster[CHOOSE i \in DOMAIN CopyRoster : CopyRoster[i].id = record.staffId]

\* What the view resolution gives for a member in the source week and in the
\* week produced, against the settings of the call
SourceView(record) ==
    CombinedStaff(Head(pending).globalSettings, CopySource, CopyMember(record))
TargetView(record) ==
    CombinedStaff(Head(pending).globalSettings, Produced, CopyMember(record))

\* The default of a member for a field of the weekly record
DefaultOf(member, field) ==
    CASE field = "name" -> member.name
      [] field = "unit" -> member.defaultUnit
      [] field = "group" -> member.defaultGroup
      [] field = "jobTitle" -> member.defaultJobTitle

C21_CarriedFieldsWhereSet ==
    [][CopyProduced =>
          \A record \in Range(Produced.staff) : \A field \in CarriedFields :
              /\ record[field] =
                    IF SourceRecord(record)[field] = Undefined
                       /\ DefaultOf(CopyMember(record), field) = Undefined
                    THEN Undefined ELSE SourceView(record)[field]
              /\ TargetView(record)[field] = SourceView(record)[field]]_vars

\* A copy whose record takes a field from the source record and another from
\* the roster entry, written to the displayed week
C21_Reached ==
    /\ call.op = "copyScheduleFromWeekResumed" /\ call.result = "true"
    /\ currentWeeklySchedule.staff # <<>>
    /\ weekDocs[ISODate(CopiedWeek)].staff[1].name = Undefined
    /\ weekDocs[ISODate(CopiedWeek)].staff[1].unit = ""
    /\ currentWeeklySchedule.staff[1].name = "A"
    /\ currentWeeklySchedule.staff[1].unit = ""
    /\ currentWeeklySchedule.staff[1].group = "A"

----------------------------------------------------------------------------
(* The failure of the save of a weekly mutation *)

\* A step of the upsert or of the removal whose setDoc the store rejects
WeeklySaveFails ==
    /\ call'.op \in {"updateStaffInWeeklySchedule", "removeStaffFromWeeklySchedule"}
    /\ call'.setDoc /\ ~call'.stored

\* C22: when the store rejects the save of updateStaffInWeeklySchedule or of
\* removeStaffFromWeeklySchedule, the schedule in memory is the new one (the
\* record upserted, or removed), the document is the old one, saveError holds
\* the failure and the call returns as it does on success, with undefined.
C22_NoRollback ==
    [][WeeklySaveFails =>
          /\ IF call'.op = "updateStaffInWeeklySchedule"
             THEN \E i \in DOMAIN currentWeeklySchedule'.staff :
                     currentWeeklySchedule'.staff[i] = SuppliedOnly(call'.arg)
             ELSE /\ RecordsOf(currentWeeklySchedule'.staff, call'.arg) = {}
                  /\ RecordsOf(currentWeeklySchedule.staff, call'.arg) # {}
          /\ weekDocs' = weekDocs
          /\ saveError' # NoError
          /\ call'.result = Undefined]_vars

\* A removal whose save failed: the record is in the document of the
\* displayed week and not in the schedule in memory
C22_Witness ==
    /\ call.op = "removeStaffFromWeeklySchedule" /\ call.setDoc /\ ~call.stored
    /\ RecordsOf(currentWeeklySchedule.staff, call.arg) = {}
    /\ weekDocs[currentWeekStartDate] # NotFound
    /\ RecordsOf(weekDocs[currentWeekStartDate].staff, call.arg) # {}
    /\ saveError # NoError

----------------------------------------------------------------------------
(* The view computed twice in a row by one build. Array.prototype.sort is a
   function of the array and of the comparator's results: where the comparator
   is not consistent the order is the engine's, the same at every call *)

\* What an engine makes of an array whose comparator is not consistent: a
\* permutation of the positions, one for every length
Engines == Perms(Len(OrderIds))
EnginePermutation(engine, n) ==
    SelectSeq(engine, LAMBDA position : position <= n)
        \o [i \in 1..(n - Len(engine)) |-> Len(engine) + i]

\* Array.prototype.sort(Cmp) on one engine
SortWith(engine, s, Cmp(_, _)) ==
    IF ConsistentComparator(ComparisonTable(s, Cmp))
    THEN CHOOSE sorted \in SortOutcomes(s, Cmp) : TRUE
    ELSE [i \in 1..Len(s) |-> s[EnginePermutation(engine, Len(s))[i]]]

\* getStaffByUnit() on one engine
GetStaffByUnitWith(engine, gs, ws, sLoading, wLoading) ==
    IF sLoading \/ wLoading \/ gs = Null THEN <<>>
    ELSE IF ActiveGlobalStaff(gs) = <<>> THEN <<>>
    ELSE
      LET list == CombinedStaffList(gs, ws)
          UnitCmp(a, b) == UnitKeyCompare(gs, a, b)
          StaffCmp(a, b) == StaffCompare(gs, a, b)
          sortedUnitKeys == SortWith(engine, OwnKeys(UnitKeysInserted(list)), UnitCmp)
      IN  [i \in 1..Len(sortedUnitKeys) |->
              [unit |-> OwnKeys(sortedUnitKeys)[i],
               staff |-> SortWith(engine, GroupedByUnit(list, OwnKeys(sortedUnitKeys)[i]),
                                  StaffCmp)]]

\* Mutant of InputsAfterView: the roster is sorted in place by name, descending
InputsAfterView_SortedInPlace(gs, ws) ==
    [globalSettings |->
        IF gs = Null THEN gs
        ELSE [gs EXCEPT !.staffList =
                 CHOOSE sorted \in SortOutcomes(gs.staffList,
                     LAMBDA a, b : LocaleCompare(b.name, a.name)) : TRUE],
     currentWeeklySchedule |-> ws]

\* The settings and the weekly schedule as getStaffByUnit leaves them: it
\* filters, maps and reduces them into new arrays and sorts those
InputsAfterView(gs, ws) == [globalSettings |-> gs, currentWeeklySchedule |-> ws]

\* getStaffByUnit() called twice by the display layer with no state update
\* between the calls: the first view is kept in view, the second in the call
GetStaffByUnitTwice ==
    \E engine \in Engines :
        LET first == GetStaffByUnitWith(engine, globalSettings, currentWeeklySchedule,
                                        settingsLoading, scheduleLoading)
            afterFirst == InputsAfterView(globalSettings, currentWeeklySchedule)
            second == GetStaffByUnitWith(engine, afterFirst.globalSettings,
                                         afterFirst.currentWeeklySchedule,
                                         settingsLoading, scheduleLoading)
            afterSecond == InputsAfterView(afterFirst.globalSettings,
                                           afterFirst.currentWeeklySchedule)
        IN  /\ view' = first
            /\ call' = [op |-> "getStaffByUnitTwice", arg |-> Undefined, result |-> second]
            /\ globalSettings' = afterSecond.globalSettings
            /\ currentWeeklySchedule' = afterSecond.currentWeeklySchedule
            /\ UNCHANGED <<settingsLoading, scheduleLoading, saveError, settingsDoc,
                           weekDocs, pending, currentUser, currentWeek, effects, listeners>>

\* One unit, three members with distinct sortOrder or tied on it, each with
\* its group from any source and the job title "A"
InitPermuted ==
    /\ \E tie \in OrderTieBreaks, g \in [1..3 -> OrderGroupSources] :
          /\ globalSettings = Settings(<<"A">>, <<"B", "A">>, <<"A">>,
                [i \in 1..3 |-> Member(OrderIds[i], tie[i].name, "A", g[i].default,
                                       "A", TRUE, tie[i].sortOrder)])
          /\ currentWeeklySchedule =
                [weekStartDate |-> 0,
                 staff |-> SelectSeq(
                     [i \in 1..3 |-> WeeklyRecord(OrderIds[i], Undefined, Undefined,
                                                  g[i].weekly, Undefined, <<>>)],
                     LAMBDA r : r.group # Undefined)]
    /\ settingsLoading = FALSE
    /\ scheduleLoading = FALSE
    /\ saveError = NoError
    /\ settingsDoc = NotFound
    /\ weekDocs = NoWeekDocs
    /\ pending = <<>>
    /\ call = NoCall
    /\ view = <<>>
    /\ AtRest

\* The inputs of the view with both registries of groups and job titles
\* listing "B" and "A", and the inputs of the order within a unit
InitTwice ==
    \/ /\ InitView
       /\ globalSettings.groups = <<"B", "A">>
       /\ globalSettings.jobTitles = <<"B", "A">>
    \/ InitPermuted

NextTwice == GetStaffByUnitTwice

SpecTwice == InitTwice /\ [][NextTwice]_vars

----------------------------------------------------------------------------
(* The safety check of saveGlobalSettings on empty settings and on settings
   without categories *)

\* Settings without a unit, group, job title, member, shift type or time slot
AllDataEmpty(settings) ==
    /\ NoCategories(settings)
    /\ settings.staffList = <<>> /\ settings.shiftTypes = <<>>
    /\ DOMAIN settings.timeSlots = {}

\* Settings that hold a category, a member or a shift type
HoldsData(settings) ==
    \/ ~NoCategories(settings)
    \/ settings.staffList # <<>> \/ settings.shiftTypes # <<>>

\* A call of saveGlobalSettings without the bypass flag
CheckedSave ==
    /\ call'.op = "saveGlobalSettings" /\ ~call'.arg.bypassSafetyChecks
    /\ call'.arg.newSettings # Null

\* C24: saveGlobalSettings without the bypass flag refuses settings that are
\* entirely empty when the settings in memory hold data: it returns false,
\* sets the security warning and writes nothing.
C24_RefusesEmptySettings ==
    [][(/\ CheckedSave
        /\ AllDataEmpty(call'.arg.newSettings)
        /\ globalSettings # Null /\ HoldsData(globalSettings)) =>
            /\ ~call'.result /\ ~call'.setDoc
            /\ saveError' # NoError
            /\ settingsDoc' = settingsDoc]_vars

\* What the code does with them: the check is skipped and the store is
\* called, whose answer is the result
C24_EmptySettingsPass ==
    [][(/\ CheckedSave
        /\ AllDataEmpty(call'.arg.newSettings)) =>
            /\ call'.setDoc
            /\ call'.result \/ StoreFailed(call')]_vars

\* Entirely empty settings saved over settings with data
C24_Reached ==
    /\ call.op = "saveGlobalSettings" /\ ~call.arg.bypassSafetyChecks
    /\ call.arg.newSettings # Null /\ AllDataEmpty(call.arg.newSettings)
    /\ globalSettings # Null /\ HoldsData(globalSettings)
    /\ call.result /\ call.setDoc
    /\ settingsDoc # NotFound /\ NoCategories(settingsDoc) /\ settingsDoc.staffList = <<>>

\* The errors that the safety check sets
SecurityWarnings ==
    {"Biztonsági figyelmeztetés: Minden kategória",
     "Biztonsági figyelmeztetés: Az összes beállítás"}

\* A step in which the safety check refuses a save
SafetyCheckRefuses ==
    /\ call'.op \in RosterMutations
    /\ saveError' \in SecurityWarnings /\ ~call'.setDoc

\* C25: the safety check refuses a save only when the settings in memory have
\* a unit, a group or a job title (and the new settings have none): a save
\* made on settings without categories is never refused, whatever members it
\* adds.
C25_RefusesOnlyCategoryLoss ==
    [][SafetyCheckRefuses =>
          globalSettings # Null /\ ~NoCategories(globalSettings)]_vars

\* What the code refuses on: settings in memory that hold a category, a
\* member or a shift type
C25_RefusesWhenDataHeld ==
    [][SafetyCheckRefuses =>
          globalSettings # Null /\ HoldsData(globalSettings)]_vars

\* The second member refused on an account that never had a category
C25_Reached ==
    /\ call.op = "addStaffToList" /\ ~call.result /\ ~call.setDoc
    /\ saveError \in SecurityWarnings
    /\ NoCategories(globalSettings) /\ Len(globalSettings.staffList) = 1
    /\ settingsDoc.staffList = globalSettings.staffList

----------------------------------------------------------------------------
(* The settings listener after its first snapshot *)

\* The settings are loaded
SettingsLoaded == globalSettings # Null /\ ~settingsLoading

\* C26: once the store has delivered a settings snapshot to a logged-in user,
\* settingsLoading is false and globalSettings is not null, and both stay so
\* while the user is the same; no snapshot resets globalSettings to null or
\* makes the settings effect subscribe again.
C26_LoadedStaysLoaded ==
    [][(SettingsLoaded /\ currentUser' = currentUser) =>
          /\ SettingsLoaded'
          /\ call'.op # "settingsEffect"]_vars

\* What the code does: every snapshot that sets globalSettings makes the
\* settings effect due again, and the effect resets what was loaded
C26_SnapshotResubscribes ==
    [][/\ call'.op = "settingsSnapshot" => effects'.settings
       /\ call'.op = "settingsEffect" =>
             globalSettings' = Null /\ currentWeeklySchedule' = Null]_vars

\* The settings effect run again on loaded settings: they are reset and the
\* listener is subscribed anew
C26_Reached ==
    /\ call.op = "settingsEffect"
    /\ globalSettings = Null /\ settingsLoading
    /\ settingsDoc # NotFound /\ settingsDoc.staffList # <<>>
    /\ listeners.settings = "due"
    /\ effects.settings

----------------------------------------------------------------------------
(* The weekly schedule in memory and the week displayed *)

\* The schedule in memory is that of the week displayed, by the date string
\* that the code computes for the week
OfDisplayedWeek ==
    currentWeeklySchedule # Null =>
        currentWeeklySchedule.weekStartDate = currentWeekStartDate

\* C27: in every state in which a weekly schedule is in memory, its
\* weekStartDate is the start date of the week displayed, under every
\* interleaving of navigation, snapshots, upsert, removal and the completion
\* of a copy. Read here in the way most favourable to the code: with the date
\* string that the code computes for the week, and in the states in which the
\* weekly effect is not about to run.
C27_ScheduleOfDisplayedWeek == ~effects.week => OfDisplayedWeek

\* The copy into a week completes after the display has moved to another
\* week: the schedule of the target week is in memory
C27_Reached ==
    /\ call.op = "copyScheduleFromWeekResumed" /\ call.result = "true"
    /\ ISODate(call.arg.targetWeekDate) # currentWeekStartDate
    /\ currentWeeklySchedule # Null
    /\ currentWeeklySchedule.weekStartDate = ISODate(call.arg.targetWeekDate)
    /\ ~effects.week /\ NoSnapshotDue /\ ~scheduleLoading

----------------------------------------------------------------------------
(* The upsert while the week loads. The edit dialog of the display layer
   stays mounted whenever the settings are loaded (part_001 l.513-528), also
   while the snapshot of the displayed week is still owed *)

\* updateStaffInWeeklySchedule called after the weekly effect has reset the
\* schedule in memory and before the snapshot of the week is delivered
updateStaffInWeeklyScheduleWhileLoading(staffMemberWeeklyData, stored) ==
    /\ ~effects.week /\ listeners.week = "due" /\ listeners.settings # "due"
    /\ ~settingsLoading /\ globalSettings # Null
    /\ currentWeeklySchedule = Null
    /\ updateStaffInWeeklyScheduleCall(staffMemberWeeklyData, stored)

NextLoading ==
    \/ SettingsEffect
    \/ \E stored \in BOOLEAN : SettingsSnapshot(stored)
    \/ WeekEffect
    \/ WeekSnapshot
    \/ \E direction \in {0 - 1, 1} : changeWeek(direction)
    \/ \E data \in UpsertArguments, stored \in BOOLEAN :
          updateStaffInWeeklySchedule(data, stored)
    \/ \E data \in UpsertArguments, stored \in BOOLEAN :
          updateStaffInWeeklyScheduleWhileLoading(data, stored)

SpecLoading == InitWeek /\ [][NextLoading]_vars

\* The records of the other staff members that the document of the displayed
\* week holds are in the document after the step, unchanged
OthersKept(id) ==
    weekDocs[currentWeekStartDate] # NotFound =>
        /\ weekDocs'[currentWeekStartDate] # NotFound
        /\ \A i \in DOMAIN weekDocs[currentWeekStartDate].staff :
              weekDocs[currentWeekStartDate].staff[i].staffId # id =>
                  \E j \in DOMAIN weekDocs'[currentWeekStartDate].staff :
                      weekDocs'[currentWeekStartDate].staff[j] =
                          weekDocs[currentWeekStartDate].staff[i]

\* C28: updateStaffInWeeklySchedule for staff s changes only the record of s:
\* every record of another staff member in the persisted document of the
\* displayed week is present, unchanged, in the document that the save writes,
\* also when the call is made while the weekly schedule in memory is null
C28_UpsertKeepsOthers ==
    [][(call'.op = "updateStaffInWeeklySchedule" /\ call'.setDoc) =>
          OthersKept(call'.arg.staffId)]_vars

\* What holds: the same of the calls made with a weekly schedule in memory
C28_UpsertKeepsOthersLoaded ==
    [][(call'.op = "updateStaffInWeeklySchedule" /\ call'.setDoc
            /\ call'.before # Null) =>
          OthersKept(call'.arg.staffId)]_vars

\* An upsert made while the week loads has written a document without the
\* records that the document held
C28_Reached ==
    /\ call.op = "updateStaffInWeeklySchedule" /\ call.setDoc /\ call.stored
    /\ call.before = Null
    /\ weekDocs[currentWeekStartDate] # NotFound
    /\ Len(weekDocs[currentWeekStartDate].staff) = 1
    /\ \E week \in WeekKeys :
          /\ week # currentWeekStartDate /\ weekDocs[week] # NotFound
          /\ Len(weekDocs[week].staff) = 3

----------------------------------------------------------------------------
(* The view of one roster in two orders. The snapshot handler keeps the
   roster sorted by sortOrder with a stable sort, so that members tied on
   sortOrder are in memory in the order of the stored document *)

\* The roster with its members in the order p
PermutedRoster(gs, p) ==
    [gs EXCEPT !.staffList = [i \in DOMAIN gs.staffList |-> gs.staffList[p[i]]]]

\* The orders of the roster that the snapshot handler can leave in memory
RosterOrders(gs) ==
    {p \in Perms(Len(gs.staffList)) :
        \A i, j \in DOMAIN gs.staffList :
            i < j => gs.staffList[p[i]].sortOrder <= gs.staffList[p[j]].sortOrder}

\* getStaffByUnit() on the roster in memory, kept in view, and on the same
\* members in another order, kept in the call
GetStaffByUnitPermuted ==
    \E engine \in Engines, p \in RosterOrders(globalSettings) :
        /\ view' = GetStaffByUnitWith(engine, globalSettings, currentWeeklySchedule,
                                      settingsLoading, scheduleLoading)
        /\ call' = [op |-> "getStaffByUnitPermuted",
                    arg |-> PermutedRoster(globalSettings, p).staffList,
                    result |-> GetStaffByUnitWith(engine, PermutedRoster(globalSettings, p),
                                                  currentWeeklySchedule,
                                                  settingsLoading, scheduleLoading)]
        /\ UNCHANGED <<globalSettings, currentWeeklySchedule, settingsLoading,
                       scheduleLoading, saveError, settingsDoc, weekDocs, pending,
                       currentUser, currentWeek, effects, listeners>>

NextPermuted == GetStaffByUnitPermuted

SpecPermuted == InitPermuted /\ [][NextPermuted]_vars

\* No two members of the roster share both sortOrder and name
DistinctTieBreaks(staffList) ==
    \A i, j \in DOMAIN staffList :
        i # j => \/ staffList[i].sortOrder # staffList[j].sortOrder
                 \/ staffList[i].name # staffList[j].name

\* The results of the per-unit comparator on the entries of a bucket
StaffComparisons(gs, staff) ==
    [i \in DOMAIN staff |-> [j \in DOMAIN staff |->
        Sign(StaffCompare(gs, staff[i], staff[j]))]]

\* The per-unit comparator is a strict total order on the entries of every
\* bucket of a view
StrictTotalOrder(gs, buckets) ==
    \A k \in DOMAIN buckets :
        /\ ConsistentComparator(StaffComparisons(gs, buckets[k].staff))
        /\ \A i, j \in DOMAIN buckets[k].staff :
              i # j => StaffComparisons(gs, buckets[k].staff)[i][j] # 0

\* C29: for a fixed registry and weekly schedule, two rosters that are
\* permutations of the same members, no two of which share both sortOrder and
\* name, give the same view; equivalently the per-unit comparator is a strict
\* total order on the entries, whatever the mix of orphaned overrides, unknown
\* roster defaults and empty values.
C29_PermutedRosterSameView ==
    [][(call'.op = "getStaffByUnitPermuted"
            /\ DistinctTieBreaks(globalSettings.staffList)) =>
          /\ call'.result = view'
          /\ StrictTotalOrder(globalSettings, view')]_vars

\* What holds: the two views are the same whenever the comparator is
\* consistent on the buckets
C29_SameViewWhereConsistent ==
    [][(call'.op = "getStaffByUnitPermuted"
            /\ DistinctTieBreaks(globalSettings.staffList)
            /\ \A k \in DOMAIN view' :
                  ConsistentComparator(StaffComparisons(globalSettings, view'[k].staff))) =>
          call'.result = view']_vars

\* Three members tied on sortOrder, seen in two orders, on whose entries the
\* comparator is not transitive: the two views differ
C29_Reached ==
    /\ call.op = "getStaffByUnitPermuted"
    /\ call.arg # globalSettings.staffList
    /\ DistinctTieBreaks(globalSettings.staffList)
    /\ call.result # view
    /\ ~StrictTotalOrder(globalSettings, view)

----------------------------------------------------------------------------
(* The calendar of the display layer: getCurrentMonday, the week navigation
   and getWeekDates, on Date objects in local time *)

\* The first days of the months of the calendar, as day numbers: day 0, a
\* Monday, is the 26th of a month of 30 days, and day 5 the 1st of the next
MonthStarts == {0 - 25, 5}
MonthStart(day) ==
    CHOOSE m \in MonthStarts : m <= day /\ \A n \in MonthStarts : n <= day => n <= m

\* date.getDay(): 0 for Sunday, 1 for Monday, ..., 6 for Saturday
getDay(date) == (date.day + 1) % 7
\* date.getDate(): the day of the month
getDate(date) == date.day - MonthStart(date.day) + 1
\* date.setDate(dayValue): the day of the month of the date, counted from the
\* first of its month; values below 1 fall in the month before
setDate(date, dayValue) == [date EXCEPT !.day = MonthStart(date.day) + dayValue - 1]

\* Mutant of DiffToMonday: Sunday taken as the first day of the week
DiffToMonday_SundayFirst(now) == getDate(now) - getDay(now) + 1

\* diffToMonday
DiffToMonday(now) ==
    getDate(now) - getDay(now) + (IF getDay(now) = 0 THEN 0 - 6 ELSE 1)

\* getCurrentMonday(dateInput) on a valid date: the clone of the input, set
\* to the day of the month diffToMonday
getCurrentMonday(dateInput) ==
    LET now == dateInput
    IN  setDate(now, DiffToMonday(now))

\* The dates of the calendar, and the dates at which sessions take place
CalendarDates ==
    {DateOf(day, utcShift) : day \in 0..(7 * (MaxWeek + 1) - 1), utcShift \in UTCShifts}
Today == {date \in CalendarDates : date.day \in (7 * ThisWeek)..(7 * ThisWeek + 6)}

\* getCurrentMonday(dateInput) called on a date; the call keeps the date
\* object that was passed as it is after the call (now is a clone of it)
GetCurrentMonday(dateInput) ==
    /\ call' = [op |-> "getCurrentMonday", input |-> dateInput, arg |-> dateInput,
                result |-> getCurrentMonday(dateInput)]
    /\ UNCHANGED <<globalSettings, currentWeeklySchedule, settingsLoading, scheduleLoading,
                   saveError, settingsDoc, weekDocs, pending, view, currentUser,
                   currentWeek, effects, listeners>>

\* weekDates of the display layer: getWeekDates(currentWeek)
GetWeekDates ==
    /\ call' = [op |-> "getWeekDates", arg |-> currentWeek,
                result |-> getWeekDates(currentWeek)]
    /\ UNCHANGED <<globalSettings, currentWeeklySchedule, settingsLoading, scheduleLoading,
                   saveError, settingsDoc, weekDocs, pending, view, currentUser,
                   currentWeek, effects, listeners>>

\* jumpToCurrentWeek() of the display layer, on the day today
jumpToCurrentWeekOn(today) ==
    /\ NoSnapshotDue /\ ~effects.week /\ ~isLoading
    /\ currentWeek' = getCurrentMonday(today)
    /\ effects' = [effects EXCEPT !.week = TRUE]
    /\ call' = [op |-> "jumpToCurrentWeek", arg |-> today, result |-> Undefined]
    /\ UNCHANGED <<globalSettings, currentWeeklySchedule, settingsLoading, scheduleLoading,
                   saveError, settingsDoc, weekDocs, pending, view, currentUser, listeners>>

\* The hook and the display layer from their construction on some day of
\* this week: useState(getCurrentMonday())
InitCalendar ==
    /\ globalSettings = Null
    /\ currentWeeklySchedule = Null
    /\ settingsLoading = TRUE
    /\ scheduleLoading = TRUE
    /\ saveError = NoError
    /\ settingsDoc = WeekSettings
    /\ weekDocs = NoWeekDocs
    /\ \E today \in Today : currentWeek = getCurrentMonday(today)
    /\ pending = <<>>
    /\ call = NoCall
    /\ view = <<>>
    /\ currentUser = User
    /\ effects = [settings |-> TRUE, week |-> TRUE]
    /\ listeners = [settings |-> "off", week |-> "off", weekOf |-> currentWeek]

NextCalendar ==
    \/ SettingsEffect
    \/ \E stored \in BOOLEAN : SettingsSnapshot(stored)
    \/ WeekEffect
    \/ WeekSnapshot
    \/ \E direction \in {0 - 1, 1} : changeWeek(direction)
    \/ \E today \in {date \in Today : date.utcShift = currentWeek.utcShift} :
          jumpToCurrentWeekOn(today)
    \/ \E dateInput \in CalendarDates : GetCurrentMonday(dateInput)
    \/ GetWeekDates

SpecCalendar == InitCalendar /\ [][NextCalendar]_vars

\* C30: for every valid date d, getCurrentMonday(d) is a Monday, not after d
\* and at most six days before it (six days before a Sunday, d itself for a
\* Monday), and d is left as it was; the displayed week is a Monday under
\* every sequence of changeWeek and jumpToCurrentWeek; and getWeekDates gives
\* the six consecutive days Monday to Saturday from it.
C30_CurrentMonday ==
    /\ [][call'.op = "getCurrentMonday" =>
            /\ getDay(call'.result) = 1
            /\ call'.result.day <= call'.input.day
            /\ call'.input.day - call'.result.day <= 6
            /\ call'.result.utcShift = call'.input.utcShift
            /\ getDay(call'.input) = 0 => call'.result.day = call'.input.day - 6
            /\ getDay(call'.input) = 1 => call'.result = call'.input
            /\ call'.arg = call'.input]_vars
    /\ [](getDay(currentWeek) = 1)
    /\ [][call'.op = "getWeekDates" =>
            /\ Len(call'.result) = 6
            /\ \A i \in 1..6 :
                  /\ getDay(call'.result[i]) = i
                  /\ call'.result[i].day = currentWeek.day + i - 1]_vars

\* getCurrentMonday of a Sunday early in a month, whose Monday is in the month
\* before, called while the week before this week is displayed
C30_Witness ==
    /\ call.op = "getCurrentMonday"
    /\ getDay(call.input) = 0 /\ getDate(call.input) < 7
    /\ DiffToMonday(call.input) < 1
    /\ call.result.day = call.input.day - 6
    /\ currentWeek.day = 7 * (ThisWeek - 1)

====
